---- MODULE Spec2Model ----
(***************************************************************************)
(* Authentication and session lifecycle of the GUARDIAN 3PL backend:       *)
(* password login with lockout, the pending-2FA step, refresh-token        *)
(* rotation and revocation, two-factor setup, backup codes and the admin   *)
(* 2FA routes, as implemented in server/controllers/authController.js,     *)
(* the two-factor controller, server/routes/auth.js and admin.js, the auth *)
(* middleware and the User model.                                          *)
(*                                                                         *)
(* Time is in seconds.  A JWT is modelled by its signing secret and its    *)
(* payload: jwt.sign is deterministic (HMAC over the payload), so two      *)
(* tokens signed with the same secret and payload are the same string.     *)
(***************************************************************************)
EXTENDS Integers, Sequences, FiniteSets, TLC

\* ---------------------------------------------------------------- bounds
MaxTicks == 1
MaxIssued == 2
MaxFailed == 6
SeedSessions == 4
MaxUsedCodes == 1
MaxAdminIssued == 1

\* ------------------------------------------------------ program constants
LockThreshold == 5
LockSeconds == 1800
TempSessionTTL == 600
AccessTTL == 900
RefreshTTL == 604800
MaxRefreshTokens == 5
TotpStep == 30
TotpWindow == 2
MinPasswordLength == 8
BackupCodeCount == 10

\* ------------------------------------------------------------ the inputs
UserIds == {"u1", "u2"}
NoUser == "nobody"
Emails == UserIds \cup {NoUser}
CompanyId == "c1"
ClientBusinessId == "b1"
NoRef == "none"
Passwords == {"Secret123!", "Passw0rd!!"}
TickSteps == {1, TempSessionTTL, LockSeconds}
NoDate == -1

\* ------------------------------------------------------------------ JWT
\* the storageCompanyId of a payload: the document that populate() loaded,
\* which keeps its _id, or the bare ObjectId, which JSON turns into a string
NoCompanyClaim == [id |-> NoRef, populated |-> FALSE]
CompanyClaim(ref, populated) == [id |-> ref, populated |-> populated /\ ref # NoRef]

NoToken ==
  [secret |-> "none", userId |-> NoUser, iat |-> NoDate, exp |-> NoDate,
   step |-> "none", role |-> "none", manageUsers |-> FALSE,
   isEmailVerified |-> FALSE, storageCompanyId |-> NoCompanyClaim]

\* a string that no secret of the server signed
ForgedToken == [NoToken EXCEPT !.secret = "forged"]

NoTokens == [accessToken |-> NoToken, refreshToken |-> NoToken]

generateAccessToken(user, uid, t) ==
  [secret |-> "JWT_SECRET", userId |-> uid, iat |-> t, exp |-> t + AccessTTL,
   step |-> "none", role |-> user.userType, manageUsers |-> user.manageUsers,
   isEmailVerified |-> user.isEmailVerified,
   storageCompanyId |-> CompanyClaim(user.storageCompanyId, TRUE)]

generateRefreshToken(uid, t) ==
  [secret |-> "JWT_REFRESH_SECRET", userId |-> uid, iat |-> t,
   exp |-> t + RefreshTTL, step |-> "none", role |-> "none",
   manageUsers |-> FALSE, isEmailVerified |-> FALSE,
   storageCompanyId |-> NoCompanyClaim]

generateTokenPair(user, uid, t) ==
  [accessToken |-> generateAccessToken(user, uid, t),
   refreshToken |-> generateRefreshToken(uid, t)]

\* the pair of a user that was loaded without populate()
generateTokenPairUnpopulated(user, uid, t) ==
  [generateTokenPair(user, uid, t) EXCEPT
     !.accessToken.storageCompanyId.populated = FALSE]

tempSessionToken(uid, t) ==
  [secret |-> "JWT_SECRET", userId |-> uid, iat |-> t,
   exp |-> t + TempSessionTTL, step |-> "2fa_required", role |-> "none",
   manageUsers |-> FALSE, isEmailVerified |-> FALSE,
   storageCompanyId |-> NoCompanyClaim]

\* jwt.verify: the signature matches the secret and the token is unexpired
jwtVerify(tok, secret, t) == tok.secret = secret /\ t < tok.exp

\* --------------------------------------------------- bcrypt, sha256, TOTP
bcryptHash(plain) == [bcrypt |-> plain]
bcryptCompare(plain, stored) == stored = bcryptHash(plain)

sha256(code) == [sha256 |-> code]

TotpCode(secret, counter) == [kind |-> "totp", key |-> secret, counter |-> counter]
BackupCode(name) == [kind |-> "backup", key |-> name, counter |-> 0]
BadCode == [kind |-> "digits", key |-> "000000", counter |-> 0]

totpVerify(secret, token, t) ==
  /\ token.kind = "totp"
  /\ token.key = secret
  /\ token.counter >= (t \div TotpStep) - TotpWindow
  /\ token.counter <= (t \div TotpStep) + TotpWindow

IndexOf(seq, x) ==
  IF \E i \in 1..Len(seq) : seq[i] = x
  THEN CHOOSE i \in 1..Len(seq) : seq[i] = x /\ \A j \in 1..(i - 1) : seq[j] # x
  ELSE 0

RemoveAt(seq, i) == SubSeq(seq, 1, i - 1) \o SubSeq(seq, i + 1, Len(seq))

Filter(seq, Keep(_)) == SelectSeq(seq, Keep)

\* variant: slice(0, n)
SliceFirst(seq, n) ==
  IF Len(seq) > n THEN SubSeq(seq, 1, n) ELSE seq

\* Array.prototype.slice(-n)
SliceLast(seq, n) ==
  IF Len(seq) > n THEN SubSeq(seq, Len(seq) - n + 1, Len(seq)) ELSE seq

CeilDiv(a, b) == (a + b - 1) \div b

\* ---------------------------------------------------------------- state
VARIABLES
  users,       \* the users collection: id -> document
  companies,   \* the storage companies collection: id -> document
  now,         \* the server clock, seconds
  ticks,       \* number of clock advances so far
  nextId,      \* next _id of a refreshTokens subdocument
  issued,      \* the tokens clients hold, each handed out by a response
  inflight,    \* requests between their read and their save
  last         \* the last completed request and its response

vars == <<users, companies, now, ticks, nextId, issued, inflight, last>>

Procs == {"p1"}

\* ClientBusiness documents: the schema has no isActive path
clientBusinesses ==
  [b \in {ClientBusinessId} |-> [name |-> b, accountStatus |-> "active"]]

\* a path the schema does not define reads as undefined, which is falsy
isActiveOf(doc) == IF "isActive" \in DOMAIN doc THEN doc.isActive ELSE FALSE

\* variant: a lock is never in force
isLockedNever(user, t) == FALSE

isLocked(user, t) ==
  user.accountLockedUntil # NoDate /\ user.accountLockedUntil > t

\* ------------------------------------------------------------ responses
Resp(status, msg) ==
  [status |-> status, msg |-> msg, requiresTwoFactor |-> FALSE,
   tempSession |-> NoToken, tokens |-> NoTokens, minutes |-> 0,
   usedBackupCode |-> FALSE, backupCodes |-> <<>>, remainingBackupCodes |-> 0]

NoDoc == [isActive |-> FALSE]

\* a handler run: its response, and the document it saves (mod: the paths it
\* modified; empty when the handler returns without user.save())
NoSave(resp) == [resp |-> resp, uid |-> NoUser, doc |-> NoDoc, mod |-> {}]
Saved(resp, uid, doc, mod) == [resp |-> resp, uid |-> uid, doc |-> doc, mod |-> mod]

\* variant: a save keeps the sessions that were stored since the read
saveKeepsStoredSessions(db, r) ==
  IF r.mod = {} THEN db
  ELSE [db EXCEPT ![r.uid] =
          [f \in DOMAIN db[r.uid] |->
             IF f \notin r.mod THEN db[r.uid][f]
             ELSE IF f # "refreshTokens" THEN r.doc[f]
             ELSE LET Unseen(e) ==
                        \A k \in DOMAIN r.doc[f] : r.doc[f][k].id # e.id
                  IN r.doc[f] \o Filter(db[r.uid][f], Unseen)]]

\* variant: a save does not take away a lock that is stored
saveKeepsStoredLock(db, r) ==
  IF r.mod = {} THEN db
  ELSE [db EXCEPT ![r.uid] =
          [f \in DOMAIN db[r.uid] |->
             IF f \notin r.mod THEN db[r.uid][f]
             ELSE IF f = "accountLockedUntil" /\ r.doc[f] = NoDate THEN db[r.uid][f]
             ELSE r.doc[f]]]

\* user.save(): the modified paths of the in-memory document are written
save(db, r) ==
  IF r.mod = {} THEN db
  ELSE [db EXCEPT ![r.uid] =
          [f \in DOMAIN db[r.uid] |-> IF f \in r.mod THEN r.doc[f] ELSE db[r.uid][f]]]

\* the tokens a response hands to the client
TokensOf(resp) ==
  {resp.tempSession, resp.tokens.accessToken, resp.tokens.refreshToken} \ {NoToken}

\* User.findOne({ email, isActive: true })
findActiveByEmail(db, email) ==
  IF \E u \in UserIds : db[u].email = email /\ db[u].isActive
  THEN CHOOSE u \in UserIds : db[u].email = email /\ db[u].isActive
  ELSE NoUser

refreshTokenEntry(id, tok, t) ==
  [id |-> id, token |-> tok, createdAt |-> t, expiresAt |-> t + RefreshTTL]

\* variant: the push without the cap
pushRefreshTokenUncapped(list, entry) == Append(list, entry)

\* refreshTokens.push(...) followed by the slice(-5) cap
pushRefreshToken(list, entry) ==
  LET pushed == Append(list, entry)
  IN IF Len(pushed) > MaxRefreshTokens THEN SliceLast(pushed, MaxRefreshTokens)
     ELSE pushed

\* ---------------------------------------------------------------- login
\* variant: the lock is set one failure late
loginPasswordFailureLate(user, uid, t) ==
  LET failed == user.failedLoginAttempts + 1
  IN IF failed > LockThreshold
     THEN Saved(Resp(401, "Account locked due to too many failed login attempts"),
                uid,
                [user EXCEPT !.failedLoginAttempts = failed,
                             !.accountLockedUntil = t + LockSeconds],
                {"failedLoginAttempts", "accountLockedUntil"})
     ELSE Saved(Resp(401, "Invalid email or password"),
                uid,
                [user EXCEPT !.failedLoginAttempts = failed],
                {"failedLoginAttempts"})

\* variant: a failed password also ends the sessions of the account
loginPasswordFailureEndsSessions(user, uid, t) ==
  Saved(Resp(401, "Invalid email or password"),
        uid,
        [user EXCEPT !.failedLoginAttempts = user.failedLoginAttempts + 1,
                     !.refreshTokens = <<>>],
        {"failedLoginAttempts", "refreshTokens"})

loginPasswordFailure(user, uid, t) ==
  LET failed == user.failedLoginAttempts + 1
  IN IF failed >= LockThreshold
     THEN Saved(Resp(401, "Account locked due to too many failed login attempts"),
                uid,
                [user EXCEPT !.failedLoginAttempts = failed,
                             !.accountLockedUntil = t + LockSeconds],
                {"failedLoginAttempts", "accountLockedUntil"})
     ELSE Saved(Resp(401, "Invalid email or password"),
                uid,
                [user EXCEPT !.failedLoginAttempts = failed],
                {"failedLoginAttempts"})

loginLocked(user, t) ==
  NoSave([Resp(401, "Account is locked") EXCEPT
            !.minutes = CeilDiv(user.accountLockedUntil - t, 60)])

loginRequires2FA(uid, t) ==
  NoSave([Resp(200, "Password verified") EXCEPT
            !.requiresTwoFactor = TRUE,
            !.tempSession = tempSessionToken(uid, t)])

loginComplete(user, uid, t, id) ==
  LET reset == [user EXCEPT !.failedLoginAttempts = 0,
                            !.accountLockedUntil = NoDate,
                            !.lastLoginAt = t]
      tokens == generateTokenPair(reset, uid, t)
  IN Saved([Resp(200, "Login successful") EXCEPT !.tokens = tokens],
           uid,
           [reset EXCEPT !.refreshTokens =
              pushRefreshToken(user.refreshTokens,
                               refreshTokenEntry(id, tokens.refreshToken, t))],
           {"failedLoginAttempts", "accountLockedUntil", "lastLoginAt",
            "refreshTokens"})

\* variant: the 2FA branch is never taken
requiresTwoFactorNever(user) == FALSE

\* if (user.twoFactorAuth && user.twoFactorAuth.enabled)
requiresTwoFactor(user) == user.twoFactorAuth.enabled

login(db, cos, t, id, email, password) ==
  LET uid == findActiveByEmail(db, email)
  IN IF uid = NoUser THEN NoSave(Resp(401, "Invalid email or password"))
     ELSE LET user == db[uid]
          IN IF user.storageCompanyId # NoRef
                /\ ~isActiveOf(cos[user.storageCompanyId])
             THEN NoSave(Resp(401, "Storage company account is inactive"))
             ELSE IF user.clientBusinessId # NoRef
                     /\ ~isActiveOf(clientBusinesses[user.clientBusinessId])
             THEN NoSave(Resp(401, "Client business account is inactive"))
             ELSE IF ~bcryptCompare(password, user.password)
             THEN loginPasswordFailure(user, uid, t)
             ELSE IF isLocked(user, t)
             THEN loginLocked(user, t)
             ELSE IF requiresTwoFactor(user)
             THEN loginRequires2FA(uid, t)
             ELSE loginComplete(user, uid, t, id)

\* ------------------------------------------------------ complete2FALogin
\* the TOTP check, then the backup-code fallback
\* variant: a matching backup code stays in the list
verify2FAKeepsCode(user, token, t) ==
  LET totp == totpVerify(user.twoFactorAuth.secret, token, t)
      idx == IndexOf(user.twoFactorAuth.backupCodes, sha256(token))
      backup == ~totp /\ Len(user.twoFactorAuth.backupCodes) > 0 /\ idx # 0
  IN [verified |-> totp \/ backup,
      usedBackupCode |-> backup,
      backupCodes |-> user.twoFactorAuth.backupCodes]

verify2FA(user, token, t) ==
  LET totp == totpVerify(user.twoFactorAuth.secret, token, t)
      idx == IndexOf(user.twoFactorAuth.backupCodes, sha256(token))
      backup == ~totp /\ Len(user.twoFactorAuth.backupCodes) > 0 /\ idx # 0
  IN [verified |-> totp \/ backup,
      usedBackupCode |-> backup,
      backupCodes |-> IF backup THEN RemoveAt(user.twoFactorAuth.backupCodes, idx)
                      ELSE user.twoFactorAuth.backupCodes]

\* variant: the pending token is not tied to the userId of the request
tempSessionValidAnyUser(tempSession, userId, t) ==
  /\ jwtVerify(tempSession, "JWT_SECRET", t)
  /\ tempSession.step = "2fa_required"

tempSessionValid(tempSession, userId, t) ==
  /\ jwtVerify(tempSession, "JWT_SECRET", t)
  /\ tempSession.userId = userId
  /\ tempSession.step = "2fa_required"

complete2FALogin(db, t, id, userId, token, tempSession) ==
  IF ~tempSessionValid(tempSession, userId, t)
  THEN NoSave(Resp(401, "Invalid or expired temporary session"))
  ELSE IF userId \notin UserIds \/ ~db[userId].isActive
  THEN NoSave(Resp(404, "User not found or inactive"))
  ELSE IF ~db[userId].twoFactorAuth.enabled
  THEN NoSave(Resp(400, "2FA is not enabled for this user"))
  ELSE LET user == db[userId]
           v == verify2FA(user, token, t)
           tokens == generateTokenPair(user, userId, t)
       IN IF ~v.verified
          THEN NoSave(Resp(400, "Invalid 2FA code or backup code"))
          ELSE Saved([Resp(200, "2FA login successful") EXCEPT
                        !.tokens = tokens,
                        !.usedBackupCode = v.usedBackupCode],
                     userId,
                     [user EXCEPT
                        !.lastLoginAt = t,
                        !.twoFactorAuth =
                           [@ EXCEPT !.lastUsedAt = t, !.backupCodes = v.backupCodes],
                        !.refreshTokens =
                           pushRefreshToken(user.refreshTokens,
                              refreshTokenEntry(id, tokens.refreshToken, t))],
                     {"lastLoginAt", "twoFactorAuth", "refreshTokens"})

\* ---------------------------------------------------------- refreshToken
tokenExists(list, tok, t) ==
  \E i \in 1..Len(list) : list[i].token = tok /\ list[i].expiresAt > t

removeToken(list, tok) ==
  LET Keep(e) == e.token # tok IN Filter(list, Keep)

rotateRefreshToken(list, old, entry) == Append(removeToken(list, old), entry)

\* variant: the refresh does not look at isActive
refreshTokenOfInactive(db, t, id, tok) ==
  IF ~jwtVerify(tok, "JWT_REFRESH_SECRET", t)
  THEN NoSave(Resp(401, "Invalid or expired refresh token"))
  ELSE IF tok.userId \notin UserIds
  THEN NoSave(Resp(401, "User not found or inactive"))
  ELSE LET user == db[tok.userId]
           tokens == generateTokenPairUnpopulated(user, tok.userId, t)
       IN IF ~tokenExists(user.refreshTokens, tok, t)
          THEN NoSave(Resp(401, "Refresh token not found or expired"))
          ELSE Saved([Resp(200, "Token refreshed successfully") EXCEPT
                        !.tokens = tokens],
                     tok.userId,
                     [user EXCEPT !.refreshTokens =
                        rotateRefreshToken(user.refreshTokens, tok,
                           refreshTokenEntry(id, tokens.refreshToken, t))],
                     {"refreshTokens"})

refreshToken(db, t, id, tok) ==
  IF ~jwtVerify(tok, "JWT_REFRESH_SECRET", t)
  THEN NoSave(Resp(401, "Invalid or expired refresh token"))
  ELSE IF tok.userId \notin UserIds \/ ~db[tok.userId].isActive
  THEN NoSave(Resp(401, "User not found or inactive"))
  ELSE LET user == db[tok.userId]
           tokens == generateTokenPairUnpopulated(user, tok.userId, t)
       IN IF ~tokenExists(user.refreshTokens, tok, t)
          THEN NoSave(Resp(401, "Refresh token not found or expired"))
          ELSE Saved([Resp(200, "Token refreshed successfully") EXCEPT
                        !.tokens = tokens],
                     tok.userId,
                     [user EXCEPT !.refreshTokens =
                        rotateRefreshToken(user.refreshTokens, tok,
                           refreshTokenEntry(id, tokens.refreshToken, t))],
                     {"refreshTokens"})

\* ------------------------------------------------------ authenticateToken
NoPrincipal ==
  [userId |-> NoUser, role |-> "none", manageUsers |-> FALSE,
   isEmailVerified |-> FALSE, storageCompanyId |-> NoCompanyClaim]

Denied(status, msg) == [ok |-> FALSE, resp |-> Resp(status, msg), user |-> NoPrincipal]

\* variant: the status of the storage company is not looked at
authenticateTokenAnyCompany(db, cos, t, tok) ==
  IF tok.secret = "JWT_SECRET" /\ ~(t < tok.exp)
  THEN Denied(401, "Access token expired")
  ELSE IF ~jwtVerify(tok, "JWT_SECRET", t)
  THEN Denied(401, "Invalid access token")
  ELSE IF tok.userId \notin UserIds \/ ~db[tok.userId].isActive
  THEN Denied(401, "User not found or inactive")
  ELSE [ok |-> TRUE, resp |-> Resp(200, "authenticated"),
        user |-> [userId |-> tok.userId, role |-> tok.role,
                  manageUsers |-> tok.manageUsers,
                  isEmailVerified |-> tok.isEmailVerified,
                  storageCompanyId |-> tok.storageCompanyId]]

authenticateToken(db, cos, t, tok) ==
  IF tok.secret = "JWT_SECRET" /\ ~(t < tok.exp)
  THEN Denied(401, "Access token expired")
  ELSE IF ~jwtVerify(tok, "JWT_SECRET", t)
  THEN Denied(401, "Invalid access token")
  ELSE IF tok.userId \notin UserIds \/ ~db[tok.userId].isActive
  THEN Denied(401, "User not found or inactive")
  ELSE IF "passwordChangedAt" \in DOMAIN db[tok.userId]
          /\ db[tok.userId].passwordChangedAt > tok.iat
  THEN Denied(401, "Password was changed. Please log in again.")
  ELSE IF tok.role # "guardian-admin"
          /\ db[tok.userId].storageCompanyId # NoRef
          /\ cos[db[tok.userId].storageCompanyId].registrationStatus # "active"
  THEN Denied(401, "Storage company is inactive")
  ELSE [ok |-> TRUE, resp |-> Resp(200, "authenticated"),
        user |-> [userId |-> tok.userId, role |-> tok.role,
                  manageUsers |-> tok.manageUsers,
                  isEmailVerified |-> tok.isEmailVerified,
                  storageCompanyId |-> tok.storageCompanyId]]

requirePermissionManageUsers(principal) ==
  principal.role = "storage-admin" \/ principal.manageUsers

\* ------------------------------------------- logout, logoutAll, sessions
\* variant: logout drops every session of the user
logoutClearsAll(db, principal, tok) ==
  Saved(Resp(200, "Logout successful"), principal.userId,
        [db[principal.userId] EXCEPT !.refreshTokens = <<>>],
        {"refreshTokens"})

logout(db, principal, tok) ==
  LET user == db[principal.userId]
  IN Saved(Resp(200, "Logout successful"), principal.userId,
           [user EXCEPT !.refreshTokens = removeToken(user.refreshTokens, tok)],
           {"refreshTokens"})

\* variant: logout-all spares the newest session
logoutAllKeepsNewest(db, principal) ==
  Saved(Resp(200, "Logged out from all devices successfully"), principal.userId,
        [db[principal.userId] EXCEPT !.refreshTokens = SliceLast(@, 1)],
        {"refreshTokens"})

logoutAll(db, principal) ==
  Saved(Resp(200, "Logged out from all devices successfully"), principal.userId,
        [db[principal.userId] EXCEPT !.refreshTokens = <<>>],
        {"refreshTokens"})

removeSession(list, sessionId) ==
  LET Keep(e) == e.id # sessionId IN Filter(list, Keep)

revokeSession(db, principal, sessionId) ==
  LET user == db[principal.userId]
  IN Saved(Resp(200, "Session revoked successfully"), principal.userId,
           [user EXCEPT !.refreshTokens = removeSession(user.refreshTokens, sessionId)],
           {"refreshTokens"})

\* -------------------------------------------------------- changePassword
\* variant: the password change leaves the sessions alone
changePasswordKeepsSessions(db, principal, currentPassword, newPassword) ==
  IF Len(newPassword) < MinPasswordLength
  THEN NoSave(Resp(400, "New password must be at least 8 characters long"))
  ELSE IF ~bcryptCompare(currentPassword, db[principal.userId].password)
  THEN NoSave(Resp(400, "Current password is incorrect"))
  ELSE Saved(Resp(200, "Password changed successfully"), principal.userId,
             [db[principal.userId] EXCEPT !.password = bcryptHash(newPassword)],
             {"password"})

changePassword(db, principal, currentPassword, newPassword) ==
  IF Len(newPassword) < MinPasswordLength
  THEN NoSave(Resp(400, "New password must be at least 8 characters long"))
  ELSE IF ~bcryptCompare(currentPassword, db[principal.userId].password)
  THEN NoSave(Resp(400, "Current password is incorrect"))
  ELSE Saved(Resp(200, "Password changed successfully"), principal.userId,
             [db[principal.userId] EXCEPT
                !.password = bcryptHash(newPassword),
                !.refreshTokens = <<>>],
             {"password", "refreshTokens"})

\* -------------------------------------------------------- updateUserRole
StorageUserTypes == {"storage-admin", "storage-manager", "storage-employee"}
ClientUserTypes == {"client-admin", "client-user", "client-viewer"}

hasPermissionManageUsers(user) ==
  user.userType = "storage-admin" \/ user.manageUsers

\* setDefaultPermissions, on permissions.administration.manageUsers
setDefaultManageUsers(user) ==
  IF user.userType = "storage-admin" THEN [user EXCEPT !.manageUsers = TRUE]
  ELSE user

\* the pre-save validation of the user type against clientBusinessId
saveValidates(user) ==
  /\ ~(user.userType \in ClientUserTypes /\ user.clientBusinessId = NoRef)
  /\ ~(user.userType \in StorageUserTypes /\ user.clientBusinessId # NoRef)

updateUserRole(db, principal, userId, userType) ==
  LET adminUser == db[principal.userId]
      user == db[userId]
      updated == [setDefaultManageUsers([user EXCEPT !.userType = userType])
                    EXCEPT !.refreshTokens = <<>>]
  IN IF ~hasPermissionManageUsers(adminUser)
     THEN NoSave(Resp(403, "Insufficient permissions to manage users"))
     ELSE IF adminUser.userType = "storage-admin"
             /\ user.storageCompanyId # adminUser.storageCompanyId
     THEN NoSave(Resp(403, "Can only manage users within your storage company"))
     ELSE IF adminUser.userType = "client-admin"
             /\ user.clientBusinessId # NoRef
             /\ user.clientBusinessId # adminUser.clientBusinessId
     THEN NoSave(Resp(403, "Can only manage users within your client business"))
     ELSE IF ~saveValidates(updated)
     THEN NoSave(Resp(500, "Failed to update user role"))
     ELSE Saved(Resp(200, "User role updated"), userId, updated,
                {"userType", "manageUsers", "refreshTokens"})

\* ----------------------------------------------------------- initial data
NoSecret == "none"
SecretOf == [u \in UserIds |-> "secret-" \o u]
BackupNames == [u \in UserIds |-> <<"backup-1-" \o u, "backup-2-" \o u>>]
InitialPassword == "Secret123!"

enabledTwoFactor(u, usedAt) ==
  [enabled |-> TRUE, secret |-> SecretOf[u],
   backupCodes |-> [i \in 1..Len(BackupNames[u]) |-> sha256(BackupCode(BackupNames[u][i]))],
   lastUsedAt |-> usedAt]

disabledTwoFactor ==
  [enabled |-> FALSE, secret |-> NoSecret, backupCodes |-> <<>>, lastUsedAt |-> NoDate]

\* a user as the creation paths and n earlier completed logins leave it: the
\* k-th login at second k - 1 pushed the entry with _id base + k
UserDoc(u, userType, clientBusinessId, isActive, tfa, base, n) ==
  [email |-> u, isActive |-> isActive, password |-> bcryptHash(InitialPassword),
   userType |-> userType, manageUsers |-> (userType = "storage-admin"),
   isEmailVerified |-> TRUE,
   storageCompanyId |-> CompanyId, clientBusinessId |-> clientBusinessId,
   twoFactorAuth |-> IF tfa THEN enabledTwoFactor(u, IF n > 0 THEN n - 1 ELSE NoDate)
                     ELSE disabledTwoFactor,
   refreshTokens |-> [k \in 1..n |->
                        refreshTokenEntry(base + k, generateRefreshToken(u, k - 1), k - 1)],
   failedLoginAttempts |-> 0, accountLockedUntil |-> NoDate,
   lastLoginAt |-> IF n > 0 THEN n - 1 ELSE NoDate]

Profiles ==
  {[userType |-> "storage-employee", clientBusinessId |-> NoRef, isActive |-> TRUE, tfa |-> FALSE],
   [userType |-> "storage-employee", clientBusinessId |-> NoRef, isActive |-> TRUE, tfa |-> TRUE],
   [userType |-> "client-user", clientBusinessId |-> ClientBusinessId, isActive |-> TRUE, tfa |-> TRUE],
   [userType |-> "storage-employee", clientBusinessId |-> NoRef, isActive |-> FALSE, tfa |-> FALSE]}

CompanyStates ==
  {[registrationStatus |-> "active", isActive |-> TRUE],
   [registrationStatus |-> "pending", isActive |-> FALSE]}

NoCall ==
  [op |-> "none", userId |-> NoUser, tok |-> NoToken, resp |-> Resp(0, "none"),
   revoked |-> FALSE]

Idle == [busy |-> FALSE, op |-> "none", r |-> NoSave(Resp(0, "none"))]

\* the token pair of a user's latest earlier login, which its client holds
SeedIssuedOf(db, u) ==
  LET n == Len(db[u].refreshTokens)
  IN IF n = 0 THEN {}
     ELSE {db[u].refreshTokens[n].token,
           generateAccessToken(db[u], u, db[u].refreshTokens[n].createdAt)}

SeedIssued(db) == UNION {SeedIssuedOf(db, u) : u \in UserIds}

\* the earlier logins are over when the model starts
StartTime == SeedSessions + 1

\* u1 is a storage admin with n1 sessions, u2 has one of the profiles
InitWith(seeds1, tfas1, profiles2, seeds2, cos) ==
  /\ \E n1 \in seeds1, tfa1 \in tfas1, p \in profiles2, n2 \in seeds2 :
       users = [u \in UserIds |->
                  IF u = "u1" THEN UserDoc(u, "storage-admin", NoRef, TRUE, tfa1, 0, n1)
                  ELSE UserDoc(u, p.userType, p.clientBusinessId, p.isActive, p.tfa,
                               SeedSessions + 1, n2)]
  /\ \E c \in cos : companies = [id \in {CompanyId} |-> c]
  /\ now = StartTime
  /\ ticks = 0
  /\ nextId = 2 * SeedSessions + 3
  /\ issued = SeedIssued(users)
  /\ inflight = [p \in Procs |-> Idle]
  /\ last = NoCall

\* --------------------------------------------- two-factor management
\* generateBackupCodes: crypto.randomBytes gives each batch codes that no
\* earlier batch holds; batch is the number of the request that drew them
CodeKeys ==
  <<"code-01", "code-02", "code-03", "code-04", "code-05",
    "code-06", "code-07", "code-08", "code-09", "code-10">>

generateBackupCodes(batch, count) ==
  [i \in 1..count |-> [kind |-> "backup", key |-> CodeKeys[i], counter |-> batch]]

\* backupCodes.map(code => sha256(code))
hashCodes(codes) == [i \in DOMAIN codes |-> sha256(codes[i])]

\* variant: the setup switches the second factor on
generate2FASetupEnabling(db, principal, secret) ==
  LET user == db[principal.userId]
  IN IF user.twoFactorAuth.enabled
     THEN NoSave(Resp(400, "2FA is already enabled. Disable it first to regenerate."))
     ELSE Saved(Resp(200, "Setup 2FA by scanning the QR code"), principal.userId,
                [user EXCEPT !.twoFactorAuth.secret = secret,
                             !.twoFactorAuth.enabled = TRUE],
                {"twoFactorAuth"})

generate2FASetup(db, principal, secret) ==
  LET user == db[principal.userId]
  IN IF user.twoFactorAuth.enabled
     THEN NoSave(Resp(400, "2FA is already enabled. Disable it first to regenerate."))
     ELSE Saved(Resp(200, "Setup 2FA by scanning the QR code"), principal.userId,
                [user EXCEPT !.twoFactorAuth.secret = secret],
                {"twoFactorAuth"})

\* variant: enabling leaves the sessions alone
verifyAndEnable2FAKeepsSessions(db, principal, t, batch, token) ==
  LET user == db[principal.userId]
      backupCodes == generateBackupCodes(batch, BackupCodeCount)
  IN IF user.twoFactorAuth.secret = NoSecret
     THEN NoSave(Resp(400, "No 2FA setup found. Generate setup first."))
     ELSE IF user.twoFactorAuth.enabled
     THEN NoSave(Resp(400, "2FA is already enabled"))
     ELSE IF ~totpVerify(user.twoFactorAuth.secret, token, t)
     THEN NoSave(Resp(400, "Invalid verification code. Please try again."))
     ELSE Saved([Resp(200, "2FA has been successfully enabled") EXCEPT
                   !.backupCodes = backupCodes],
                principal.userId,
                [user EXCEPT
                   !.twoFactorAuth =
                      [@ EXCEPT !.enabled = TRUE,
                                !.backupCodes = hashCodes(backupCodes),
                                !.lastUsedAt = t]],
                {"twoFactorAuth"})

verifyAndEnable2FA(db, principal, t, batch, token) ==
  LET user == db[principal.userId]
      backupCodes == generateBackupCodes(batch, BackupCodeCount)
  IN IF user.twoFactorAuth.secret = NoSecret
     THEN NoSave(Resp(400, "No 2FA setup found. Generate setup first."))
     ELSE IF user.twoFactorAuth.enabled
     THEN NoSave(Resp(400, "2FA is already enabled"))
     ELSE IF ~totpVerify(user.twoFactorAuth.secret, token, t)
     THEN NoSave(Resp(400, "Invalid verification code. Please try again."))
     ELSE Saved([Resp(200, "2FA has been successfully enabled") EXCEPT
                   !.backupCodes = backupCodes],
                principal.userId,
                [user EXCEPT
                   !.twoFactorAuth =
                      [@ EXCEPT !.enabled = TRUE,
                                !.backupCodes = hashCodes(backupCodes),
                                !.lastUsedAt = t],
                   !.refreshTokens = <<>>],
                {"twoFactorAuth", "refreshTokens"})

\* token is NoCode when the body carries none
NoCode == [kind |-> "none", key |-> "", counter |-> 0]

disable2FA(db, principal, t, password, token) ==
  LET user == db[principal.userId]
  IN IF ~bcryptCompare(password, user.password)
     THEN NoSave(Resp(400, "Invalid password"))
     ELSE IF ~user.twoFactorAuth.enabled
     THEN NoSave(Resp(400, "2FA is not enabled"))
     ELSE IF token = NoCode
     THEN NoSave(Resp(400, "2FA verification code is required"))
     ELSE IF ~totpVerify(user.twoFactorAuth.secret, token, t)
     THEN NoSave(Resp(400, "Invalid 2FA code"))
     ELSE Saved(Resp(200, "2FA has been disabled successfully"), principal.userId,
                [user EXCEPT !.twoFactorAuth = disabledTwoFactor,
                             !.refreshTokens = <<>>],
                {"twoFactorAuth", "refreshTokens"})

\* variant: the attempt is stamped before the code is checked
verify2FATokenStamps(db, t, userId, token) ==
  IF userId \notin UserIds \/ ~db[userId].isActive
  THEN NoSave(Resp(404, "User not found or inactive"))
  ELSE IF ~db[userId].twoFactorAuth.enabled
  THEN NoSave(Resp(400, "2FA is not enabled for this user"))
  ELSE LET user == db[userId]
           v == verify2FA(user, token, t)
           stamped == [user EXCEPT
                         !.twoFactorAuth =
                            [@ EXCEPT !.lastUsedAt = t, !.backupCodes = v.backupCodes]]
       IN IF ~v.verified
          THEN Saved(Resp(400, "Invalid 2FA code or backup code"), userId, stamped,
                     {"twoFactorAuth"})
          ELSE Saved([Resp(200, "2FA verification successful") EXCEPT
                        !.usedBackupCode = v.usedBackupCode,
                        !.remainingBackupCodes = Len(v.backupCodes)],
                     userId, stamped, {"twoFactorAuth"})

\* POST /2fa/verify carries no access token and no pending token
verify2FAToken(db, t, userId, token) ==
  IF userId \notin UserIds \/ ~db[userId].isActive
  THEN NoSave(Resp(404, "User not found or inactive"))
  ELSE IF ~db[userId].twoFactorAuth.enabled
  THEN NoSave(Resp(400, "2FA is not enabled for this user"))
  ELSE LET user == db[userId]
           v == verify2FA(user, token, t)
       IN IF ~v.verified
          THEN NoSave(Resp(400, "Invalid 2FA code or backup code"))
          ELSE Saved([Resp(200, "2FA verification successful") EXCEPT
                        !.usedBackupCode = v.usedBackupCode,
                        !.remainingBackupCodes = Len(v.backupCodes)],
                     userId,
                     [user EXCEPT
                        !.twoFactorAuth =
                           [@ EXCEPT !.lastUsedAt = t, !.backupCodes = v.backupCodes]],
                     {"twoFactorAuth"})

\* variant: the new codes are added to the stored ones
regenerateBackupCodesAdds(db, principal, batch, password) ==
  LET user == db[principal.userId]
      backupCodes == generateBackupCodes(batch, BackupCodeCount)
  IN IF ~bcryptCompare(password, user.password)
     THEN NoSave(Resp(400, "Invalid password"))
     ELSE IF ~user.twoFactorAuth.enabled
     THEN NoSave(Resp(400, "2FA must be enabled to regenerate backup codes"))
     ELSE Saved([Resp(200, "Backup codes regenerated successfully") EXCEPT
                   !.backupCodes = backupCodes],
                principal.userId,
                [user EXCEPT !.twoFactorAuth.backupCodes = @ \o hashCodes(backupCodes)],
                {"twoFactorAuth"})

regenerateBackupCodes(db, principal, batch, password) ==
  LET user == db[principal.userId]
      backupCodes == generateBackupCodes(batch, BackupCodeCount)
  IN IF ~bcryptCompare(password, user.password)
     THEN NoSave(Resp(400, "Invalid password"))
     ELSE IF ~user.twoFactorAuth.enabled
     THEN NoSave(Resp(400, "2FA must be enabled to regenerate backup codes"))
     ELSE Saved([Resp(200, "Backup codes regenerated successfully") EXCEPT
                   !.backupCodes = backupCodes],
                principal.userId,
                [user EXCEPT !.twoFactorAuth.backupCodes = hashCodes(backupCodes)],
                {"twoFactorAuth"})

\* ------------------------------------------ the admin router's 2FA routes
requireRoleAdmin(principal) == principal.role \in {"guardian-admin", "storage-admin"}

\* the checks the three routes share
admin2FAChecks(db, principal, userId, denied) ==
  IF principal.role # "guardian-admin" THEN Resp(403, denied)
  ELSE IF userId \notin UserIds THEN Resp(404, "User not found")
  ELSE IF userId = principal.userId
  THEN Resp(400, "Cannot modify your own 2FA settings through admin interface")
  ELSE Resp(200, "ok")

adminEnable2FA(db, principal, userId) ==
  LET c == admin2FAChecks(db, principal, userId,
             "Only GUARDIAN administrators can manage 2FA settings")
  IN IF c.status # 200 THEN NoSave(c)
     ELSE Saved(Resp(200, "2FA enabled for user"), userId,
                [db[userId] EXCEPT !.twoFactorAuth.enabled = TRUE],
                {"twoFactorAuth"})

adminDisable2FA(db, principal, userId) ==
  LET c == admin2FAChecks(db, principal, userId,
             "Only GUARDIAN administrators can manage 2FA settings")
  IN IF c.status # 200 THEN NoSave(c)
     ELSE Saved(Resp(200, "2FA disabled for user"), userId,
                [db[userId] EXCEPT !.twoFactorAuth.enabled = FALSE],
                {"twoFactorAuth"})

adminReset2FA(db, principal, userId) ==
  LET c == admin2FAChecks(db, principal, userId,
             "Only GUARDIAN administrators can reset 2FA settings")
  IN IF c.status # 200 THEN NoSave(c)
     ELSE Saved(Resp(200, "2FA configuration reset for user"), userId,
                [db[userId] EXCEPT
                   !.twoFactorAuth = [@ EXCEPT !.secret = NoSecret,
                                               !.backupCodes = <<>>,
                                               !.enabled = FALSE]],
                {"twoFactorAuth"})

\* ----------------------------------------------------- what clients send
Presentable == issued \cup {ForgedToken}

\* the current code of the secret, an old one, a backup code, and digits
\* that are neither
CodeInputs ==
  {TotpCode(SecretOf[u], now \div TotpStep) : u \in UserIds}
    \cup {TotpCode(SecretOf[u], 0) : u \in UserIds}
    \cup {BackupCode(BackupNames[u][1]) : u \in UserIds}
    \cup {BadCode}

NewPasswords == Passwords \cup {"short"}
RoleInputs == {"storage-admin", "storage-manager", "storage-employee", "client-user"}

\* ------------------------------------------- the requests and their runs
\* what is kept of a request: of a rejected one, the operation and the response
\* (and for login the account)
\* the save of a run drops an entry of the stored refreshTokens list
Revokes(r) ==
  /\ "refreshTokens" \in r.mod
  /\ \E k \in DOMAIN users[r.uid].refreshTokens :
       \A j \in DOMAIN r.doc.refreshTokens :
         r.doc.refreshTokens[j] # users[r.uid].refreshTokens[k]

Call(op, userId, tok, r) ==
  [op |-> op,
   userId |-> IF r.resp.status = 200 \/ op = "login" THEN userId ELSE NoUser,
   tok |-> IF r.resp.status = 200 THEN tok ELSE NoToken,
   resp |-> r.resp,
   revoked |-> Revokes(r)]

Run(op, userId, tok, r) == [call |-> Call(op, userId, tok, r), r |-> r]

LoginInputs == Emails \X Passwords

\* the account whose password is being guessed
GuessingInputs == (Emails \X {InitialPassword}) \cup ({"u1"} \X Passwords)

LoginRun(email, password) ==
  Run("login", findActiveByEmail(users, email), NoToken,
      login(users, companies, now, nextId, email, password))

Complete2FALoginRun(u, c, tok) ==
  Run("complete2FALogin", u, tok, complete2FALogin(users, now, nextId, u, c, tok))

RefreshTokenRun(tok) ==
  Run("refreshToken", tok.userId, tok, refreshToken(users, now, nextId, tok))

\* a route behind authenticateToken: the handler runs for the principal
Guarded(tok, Handler(_)) ==
  LET a == authenticateToken(users, companies, now, tok)
  IN IF ~a.ok THEN NoSave(a.resp) ELSE Handler(a.user)

LogoutRun(tok, rt) ==
  Run("logout", tok.userId, rt,
      LET H(principal) == logout(users, principal, rt) IN Guarded(tok, H))

LogoutAllRun(tok) ==
  Run("logoutAll", tok.userId, tok,
      LET H(principal) == logoutAll(users, principal) IN Guarded(tok, H))

RevokeSessionRun(tok, sid) ==
  Run("revokeSession", tok.userId, tok,
      LET H(principal) == revokeSession(users, principal, sid) IN Guarded(tok, H))

\* authenticateToken, requireEmailVerification, changePassword
ChangePasswordRun(tok, cur, new) ==
  Run("changePassword", tok.userId, tok,
      LET H(principal) ==
            IF ~principal.isEmailVerified
            THEN NoSave(Resp(403, "Email verification required"))
            ELSE changePassword(users, principal, cur, new)
      IN Guarded(tok, H))

\* authenticateToken, requirePermission, updateUserRole
UpdateUserRoleRun(tok, u, ut) ==
  Run("updateUserRole", u, tok,
      LET H(principal) ==
            IF ~requirePermissionManageUsers(principal)
            THEN NoSave(Resp(403, "Permission 'administration.manageUsers' required"))
            ELSE updateUserRole(users, principal, u, ut)
      IN Guarded(tok, H))

\* the 2FA routes: authenticateToken, requireEmailVerification, the handler
Verified(tok, Handler(_)) ==
  LET H(principal) ==
        IF ~principal.isEmailVerified
        THEN NoSave(Resp(403, "Email verification required"))
        ELSE Handler(principal)
  IN Guarded(tok, H)

Generate2FASetupRun(tok, secret) ==
  Run("generate2FASetup", tok.userId, tok,
      LET H(principal) == generate2FASetup(users, principal, secret)
      IN Verified(tok, H))

VerifyAndEnable2FARun(tok, c) ==
  Run("verifyAndEnable2FA", tok.userId, tok,
      LET H(principal) == verifyAndEnable2FA(users, principal, now, nextId, c)
      IN Verified(tok, H))

Disable2FARun(tok, password, c) ==
  Run("disable2FA", tok.userId, tok,
      LET H(principal) == disable2FA(users, principal, now, password, c)
      IN Verified(tok, H))

Verify2FATokenRun(u, c) ==
  Run("verify2FAToken", u, NoToken, verify2FAToken(users, now, u, c))

RegenerateBackupCodesRun(tok, password) ==
  Run("regenerateBackupCodes", tok.userId, tok,
      LET H(principal) == regenerateBackupCodes(users, principal, nextId, password)
      IN Verified(tok, H))

\* the admin router: authenticateToken, requireRole, the route
AdminGuarded(tok, Handler(_)) ==
  LET H(principal) ==
        IF ~requireRoleAdmin(principal)
        THEN NoSave(Resp(403, "Insufficient permissions"))
        ELSE Handler(principal)
  IN Guarded(tok, H)

AdminEnable2FARun(tok, u) ==
  Run("adminEnable2FA", u, tok,
      LET H(principal) == adminEnable2FA(users, principal, u) IN AdminGuarded(tok, H))

AdminDisable2FARun(tok, u) ==
  Run("adminDisable2FA", u, tok,
      LET H(principal) == adminDisable2FA(users, principal, u) IN AdminGuarded(tok, H))

AdminReset2FARun(tok, u) ==
  Run("adminReset2FA", u, tok,
      LET H(principal) == adminReset2FA(users, principal, u) IN AdminGuarded(tok, H))

\* the _id of a user's oldest and newest session, and one no session has
SessionIds ==
  {0} \cup UNION {{users[u].refreshTokens[k].id : k \in {1, Len(users[u].refreshTokens)}
                                                      \cap DOMAIN users[u].refreshTokens}
                    : u \in UserIds}

\* a response that used up the number of the request: for the _id of the new
\* session, or for the batch of backup codes
DrawsId(resp) == resp.tokens # NoTokens \/ resp.backupCodes # <<>>

\* a run stays within the bounds of the model
WithinBounds(x) ==
  /\ DrawsId(x.r.resp) => nextId < 2 * SeedSessions + 3 + MaxIssued
  /\ "failedLoginAttempts" \in x.r.mod => x.r.doc.failedLoginAttempts <= MaxFailed
  /\ x.r.resp.usedBackupCode
     => \/ Len(x.r.doc.twoFactorAuth.backupCodes) >= BackupCodeCount - MaxUsedCodes
        \/ Len(x.r.doc.twoFactorAuth.backupCodes) < Len(BackupNames[x.r.uid])

\* the handler runs to its response without interleaving
Respond(x, call) ==
  /\ WithinBounds(x)
  /\ users' = save(users, x.r)
  /\ issued' = issued \cup TokensOf(x.r.resp)
  /\ nextId' = IF DrawsId(x.r.resp) THEN nextId + 1 ELSE nextId
  /\ last' = call
  /\ UNCHANGED <<companies, now, ticks, inflight>>

Finish(x) == Respond(x, x.call)

\* authRateLimit counts failed requests per client address; the requests here
\* come from addresses that are under their limit
Login ==
  \E x \in {LoginRun(i[1], i[2]) : i \in GuessingInputs} : Finish(x)
Complete2FALogin ==
  \E x \in {Complete2FALoginRun(u, c, tok)
              : u \in UserIds, c \in CodeInputs, tok \in Presentable} :
    Finish(x)
RefreshToken ==
  \E x \in {RefreshTokenRun(tok) : tok \in Presentable} : Finish(x)
Logout ==
  \E x \in {LogoutRun(tok, rt) : tok \in Presentable, rt \in Presentable} : Finish(x)
LogoutAll ==
  \E x \in {LogoutAllRun(tok) : tok \in Presentable} : Finish(x)
RevokeSession ==
  \E x \in {RevokeSessionRun(tok, sid)
              : tok \in Presentable, sid \in SessionIds} :
    Finish(x)
\* the password a user moves to, and one that is too short
ChangePassword ==
  \E x \in {ChangePasswordRun(tok, cur, new)
              : tok \in Presentable, cur \in Passwords, new \in {"Passw0rd!!", "short"}} :
    Finish(x)

\* the administrator promotes the employee, or makes it a client user
UpdateUserRole ==
  \E x \in {UpdateUserRoleRun(tok, "u2", ut)
              : tok \in Presentable, ut \in {"storage-manager", "client-user"}} :
    Finish(x)

\* the clock moves on to a later one of the instants the expiries depend on
Tick ==
  /\ ticks < MaxTicks
  /\ \E d \in TickSteps : now' = StartTime + d /\ now' > now
  /\ ticks' = ticks + 1
  /\ last' = [NoCall EXCEPT !.op = "tick"]
  /\ UNCHANGED <<users, companies, nextId, issued, inflight>>

\* ------------------------------------------------------- specifications
\* password guessing and the lockout
InitLockout == InitWith({0}, BOOLEAN, Profiles, {0}, CompanyStates)
NextLockout == Login \/ Tick
SpecLockout == InitLockout /\ [][NextLockout]_vars

\* the two steps of a login, by clients that know their password
TwoFactorProfiles == {p \in Profiles : p.tfa \/ ~p.isActive}
TwoFactorLogin ==
  \E x \in {LoginRun(e, InitialPassword) : e \in Emails} : Finish(x)
InitTwoFactor ==
  InitWith({SeedSessions}, BOOLEAN, TwoFactorProfiles, {0}, CompanyStates)
NextTwoFactor == TwoFactorLogin \/ Complete2FALogin \/ Tick
SpecTwoFactor == InitTwoFactor /\ [][NextTwoFactor]_vars

\* sessions: password logins, rotation, revocation, password and role changes
SessionProfiles == {p \in Profiles : p.isActive /\ p.clientBusinessId = NoRef /\ ~p.tfa}
ActiveCompany == {c \in CompanyStates : c.isActive}
InitSession == InitWith({1}, {FALSE}, SessionProfiles, {0}, ActiveCompany)
\* clients that know their password
KnownPasswords ==
  {i \in LoginInputs :
     \E u \in UserIds : users[u].email = i[1] /\ users[u].password = bcryptHash(i[2])}
SessionLogin ==
  \E x \in {LoginRun(i[1], i[2]) : i \in KnownPasswords} : Finish(x)
NextSession ==
  \/ SessionLogin
  \/ RefreshToken
  \/ Logout
  \/ LogoutAll
  \/ RevokeSession
  \/ ChangePassword
  \/ UpdateUserRole
  \/ Tick
SpecSession == InitSession /\ [][NextSession]_vars

\* revocation: logout, logout-all and password change against logins and
\* rotation.  A rejection that saves nothing and hands out nothing leaves every
\* variable but last as it was; these runs follow the requests that take effect
Effective(x) == (x.r.mod # {} \/ TokensOf(x.r.resp) # {}) /\ Finish(x)
RevLogin ==
  \E x \in {LoginRun(i[1], i[2]) : i \in KnownPasswords} : Effective(x)
RevRefreshToken ==
  \E x \in {RefreshTokenRun(tok) : tok \in Presentable} : Effective(x)
RevLogout ==
  \E x \in {LogoutRun(tok, rt) : tok \in Presentable, rt \in Presentable} :
    Effective(x)
RevLogoutAll ==
  \E x \in {LogoutAllRun(tok) : tok \in Presentable} : Effective(x)
RevChangePassword ==
  \E x \in {ChangePasswordRun(tok, cur, new)
              : tok \in Presentable, cur \in Passwords, new \in {"Passw0rd!!", "short"}} :
    Effective(x)
\* the clock moves on by a second, or past the expiry of the access tokens
RevTick ==
  /\ ticks < MaxTicks
  /\ \E d \in {1, AccessTTL} : now' = StartTime + d /\ now' > now
  /\ ticks' = ticks + 1
  /\ last' = [NoCall EXCEPT !.op = "tick"]
  /\ UNCHANGED <<users, companies, nextId, issued, inflight>>
NextRevocation ==
  \/ RevLogin
  \/ RevRefreshToken
  \/ RevLogout
  \/ RevLogoutAll
  \/ RevChangePassword
  \/ RevTick
SpecRevocation == InitSession /\ [][NextRevocation]_vars

\* two-factor management: setup, enabling, disabling, verification and backup
\* codes of an employee, and the routes of the platform administrator.  u1 is
\* the administrator setup.js creates: guardian-admin, no storage company
GuardianAdmin(u, n) ==
  [UserDoc(u, "guardian-admin", NoRef, TRUE, FALSE, 0, n) EXCEPT
     !.storageCompanyId = NoRef, !.manageUsers = TRUE]

InitManage ==
  /\ \E tfa2 \in BOOLEAN :
       users = [u \in UserIds |->
                  IF u = "u1" THEN GuardianAdmin(u, 1)
                  ELSE UserDoc(u, "storage-employee", NoRef, TRUE, tfa2,
                               SeedSessions + 1, 1)]
  /\ \E c \in ActiveCompany : companies = [id \in {CompanyId} |-> c]
  /\ now = StartTime
  /\ ticks = 0
  /\ nextId = 2 * SeedSessions + 3
  /\ issued = SeedIssued(users)
  /\ inflight = [p \in Procs |-> Idle]
  /\ last = NoCall

\* the secret speakeasy.generateSecret draws
SetupSecrets == {"setup-a"}

\* the codes a client sends: of a stored secret the current code, the last one
\* of the window, the first one past it and a stale one; the next backup code
\* of a stored list, a code of the first list, and digits that are neither
StoredSecrets == {users[u].twoFactorAuth.secret : u \in UserIds} \ {NoSecret}
ManageCodes ==
  {TotpCode(s, now \div TotpStep + k)
     : s \in StoredSecrets, k \in {0, TotpWindow, TotpWindow + 1}}
    \cup {TotpCode(s, 0) : s \in StoredSecrets}
    \cup {users[u].twoFactorAuth.backupCodes[1].sha256
            : u \in {v \in UserIds : users[v].twoFactorAuth.backupCodes # <<>>}}
    \cup {BackupCode(BackupNames[u][1]) : u \in UserIds}
    \cup {BadCode}

\* the employee logs in and manages its own second factor, with the tokens it
\* holds or a forged one
Employee == "u2"
EmployeeTokens == {tok \in Presentable : tok.userId \in {Employee, NoUser}}

ManageLogin ==
  \E x \in {LoginRun(Employee, InitialPassword)} : Effective(x)
ManageComplete2FALogin ==
  \E x \in {Complete2FALoginRun(Employee, c, tok)
              : c \in ManageCodes, tok \in EmployeeTokens} :
    Effective(x)
Generate2FASetup ==
  \E x \in {Generate2FASetupRun(tok, secret)
              : tok \in EmployeeTokens, secret \in SetupSecrets} :
    Effective(x)
VerifyAndEnable2FA ==
  \E x \in {VerifyAndEnable2FARun(tok, c) : tok \in EmployeeTokens, c \in ManageCodes} :
    Effective(x)
Disable2FA ==
  \E x \in {Disable2FARun(tok, pw, c)
              : tok \in EmployeeTokens, pw \in Passwords, c \in ManageCodes \cup {NoCode}} :
    Effective(x)
\* of this verification the rejections are followed too
Verify2FAToken ==
  \E x \in {Verify2FATokenRun(Employee, c) : c \in ManageCodes} : Finish(x)
RegenerateBackupCodes ==
  \E x \in {RegenerateBackupCodesRun(tok, pw) : tok \in EmployeeTokens, pw \in Passwords} :
    Effective(x)
AdminEnable2FA ==
  \E x \in {AdminEnable2FARun(tok, u) : tok \in Presentable, u \in UserIds} :
    Effective(x)
AdminDisable2FA ==
  \E x \in {AdminDisable2FARun(tok, u) : tok \in Presentable, u \in UserIds} :
    Effective(x)
AdminReset2FA ==
  \E x \in {AdminReset2FARun(tok, u) : tok \in Presentable, u \in UserIds} :
    Effective(x)
\* the clock moves on by the lifetime of a pending token: the TOTP codes and
\* the pending tokens of before are stale, then the first access tokens too
ManageTick ==
  /\ ticks < MaxTicks
  /\ now' = now + TempSessionTTL
  /\ ticks' = ticks + 1
  /\ last' = [NoCall EXCEPT !.op = "tick"]
  /\ UNCHANGED <<users, companies, nextId, issued, inflight>>
\* the employee's own second factor: setup, enabling, disabling, and logins
NextSetup ==
  \/ ManageLogin
  \/ ManageComplete2FALogin
  \/ Generate2FASetup
  \/ VerifyAndEnable2FA
  \/ Disable2FA
  \/ ManageTick
SpecSetup == InitManage /\ [][NextSetup]_vars

NextManage ==
  \/ ManageLogin
  \/ ManageComplete2FALogin
  \/ Generate2FASetup
  \/ VerifyAndEnable2FA
  \/ Disable2FA
  \/ Verify2FAToken
  \/ RegenerateBackupCodes
  \/ AdminEnable2FA
  \/ AdminDisable2FA
  \/ AdminReset2FA
  \/ ManageTick
SpecManage == InitManage /\ [][NextManage]_vars

\* what a handler holds between its read and its save: the response it will
\* send and the modified paths it will write
\* variant: the second factor of the document is not written back
PendingWithoutSecondFactor(r) ==
  [r EXCEPT !.mod = r.mod \ {"twoFactorAuth"},
            !.doc = [f \in r.mod \ {"twoFactorAuth"} |-> r.doc[f]]]

Pending(r) == [r EXCEPT !.doc = [f \in r.mod |-> r.doc[f]]]

\* interleaved requests: a handler reads the user, computes, and its save
\* lands later; between the two, other requests read and save
Begin(p, x) ==
  /\ ~inflight[p].busy
  /\ p = "p1" \/ inflight["p1"].busy
  /\ WithinBounds(x)
  /\ inflight' = [inflight EXCEPT ![p] = [busy |-> TRUE, op |-> x.call.op, r |-> Pending(x.r)]]
  /\ nextId' = IF DrawsId(x.r.resp) THEN nextId + 1 ELSE nextId
  /\ UNCHANGED <<users, companies, now, ticks, issued, last>>

\* a handler that returns without a save has no second step; a rejection
\* that hands out nothing leaves every variable but last as it was, and is
\* left out of the interleavings, which do not record the last response
Start(x) ==
  \/ (x.r.mod # {} \/ TokensOf(x.r.resp) # {}) /\ Respond(x, last)
  \/ x.r.mod # {} /\ \E p \in Procs : Begin(p, x)

Commit ==
  \E p \in Procs :
    /\ inflight[p].busy
    /\ users' = save(users, inflight[p].r)
    /\ issued' = issued \cup TokensOf(inflight[p].r.resp)
    /\ inflight' = [inflight EXCEPT ![p] = Idle]
    /\ UNCHANGED <<companies, now, ticks, nextId, last>>

\* the requests of one user race with each other
ConcLogin ==
  \E i \in {k \in KnownPasswords : k[1] = "u1"} : Start(LoginRun(i[1], i[2]))
ConcComplete2FALogin ==
  \E x \in {Complete2FALoginRun(u, c, tok)
              : u \in UserIds, c \in CodeInputs, tok \in Presentable} :
    Start(x)
ConcRefreshToken ==
  \E x \in {RefreshTokenRun(tok) : tok \in Presentable} : Start(x)
ConcLogout ==
  \E x \in {LogoutRun(tok, rt) : tok \in Presentable, rt \in Presentable} : Start(x)
ConcLogoutAll ==
  \E x \in {LogoutAllRun(tok) : tok \in Presentable} : Start(x)
OldestSessionIds ==
  {users[u].refreshTokens[1].id : u \in {v \in UserIds : users[v].refreshTokens # <<>>}}
ConcRevokeSession ==
  \E x \in {RevokeSessionRun(tok, sid)
              : tok \in Presentable, sid \in OldestSessionIds} :
    Start(x)
ConcChangePassword ==
  \E x \in {ChangePasswordRun(tok, cur, "Passw0rd!!")
              : tok \in Presentable, cur \in Passwords} :
    Start(x)
ConcUpdateUserRole ==
  \E x \in {UpdateUserRoleRun(tok, "u2", "storage-manager")
              : tok \in Presentable} :
    Start(x)

\* the logins of one account race with each other, with the right and with a
\* wrong password
RaceLogin ==
  \E x \in {LoginRun("u1", pw) : pw \in Passwords} : Start(x)
InitRace == InitWith({0}, {FALSE}, SessionProfiles, {0}, ActiveCompany)
NextRace == RaceLogin \/ Commit
SpecRace == InitRace /\ [][NextRace]_vars

InitConc == InitWith({SeedSessions}, BOOLEAN, SessionProfiles, {0}, ActiveCompany)
NextConc ==
  \/ ConcLogin
  \/ ConcComplete2FALogin
  \/ ConcRefreshToken
  \/ ConcLogout
  \/ ConcLogoutAll
  \/ ConcRevokeSession
  \/ ConcChangePassword
  \/ ConcUpdateUserRole
  \/ Commit
SpecConc == InitConc /\ [][NextConc]_vars

\* --------------------------------------------- two-step login properties
TenantRejections ==
  {"Storage company account is inactive", "Client business account is inactive"}

PendingTokens == {tok \in issued : tok.step = "2fa_required"}

\* C1: a login with the correct password for a user whose 2FA is enabled never
\* returns an access or refresh token and leaves refreshTokens as stored; when
\* the login is not rejected (tenant active, account not locked) the response
\* carries requiresTwoFactor and a pending-2FA token of that user.
C1_PasswordStepIssuesNoTokens ==
  \A i \in LoginInputs :
    LET uid == findActiveByEmail(users, i[1])
        r == login(users, companies, now, nextId, i[1], i[2])
    IN (/\ uid # NoUser
        /\ users[uid].twoFactorAuth.enabled
        /\ users[uid].password = bcryptHash(i[2]))
       => /\ r.resp.tokens = NoTokens
          /\ \A tok \in TokensOf(r.resp) : tok.step = "2fa_required"
          /\ save(users, r)[uid].refreshTokens = users[uid].refreshTokens
          /\ (/\ companies[users[uid].storageCompanyId].isActive
              /\ users[uid].clientBusinessId = NoRef
              /\ ~(users[uid].accountLockedUntil > now))
             => r.resp.status = 200
          /\ r.resp.status = 200
             => /\ r.resp.requiresTwoFactor
                /\ r.resp.tempSession.userId = uid
                /\ r.resp.tempSession.step = "2fa_required"
                /\ r.resp.tempSession.secret = "JWT_SECRET"
                /\ r.resp.tempSession.exp = now + TempSessionTTL

C1_Witness ==
  /\ last.op = "login"
  /\ last.resp.requiresTwoFactor
  /\ last.resp.tempSession.userId = last.userId
  /\ last.resp.tokens = NoTokens
  /\ users[last.userId].twoFactorAuth.enabled

\* C2: complete2FALogin returns a token pair only for an unexpired pending
\* token with purpose 2fa_required that login handed out for the same userId at
\* most ten minutes earlier, together with a valid TOTP code or a stored backup
\* code; login hands out a pending token only after a correct password; a
\* pending token of another user, an expired one, or a token without the
\* purpose issues nothing and changes no stored state.
C2_TokensOnlyAfterBothFactors ==
  /\ \A u \in UserIds, c \in CodeInputs, tok \in Presentable :
       LET r == complete2FALogin(users, now, nextId, u, c, tok)
           usable == /\ tok \in issued
                     /\ tok.step = "2fa_required"
                     /\ tok.secret = "JWT_SECRET"
                     /\ tok.userId = u
                     /\ tok.iat <= now
                     /\ now < tok.iat + TempSessionTTL
           codes == users[u].twoFactorAuth.backupCodes
       IN /\ r.resp.tempSession = NoToken
          /\ r.resp.tokens # NoTokens
             => /\ usable
                /\ \/ \E k \in -TotpWindow..TotpWindow :
                        c = TotpCode(users[u].twoFactorAuth.secret,
                                     now \div TotpStep + k)
                   \/ \E k \in 1..Len(codes) : codes[k] = sha256(c)
          /\ ~usable
             => /\ r.resp.tokens = NoTokens
                /\ r.resp.status = 401
                /\ r.mod = {}
  /\ \A i \in LoginInputs :
       LET uid == findActiveByEmail(users, i[1])
           r == login(users, companies, now, nextId, i[1], i[2])
       IN r.resp.tempSession # NoToken
          => /\ uid # NoUser
             /\ users[uid].password = bcryptHash(i[2])
             /\ r.resp.tempSession.userId = uid
             /\ r.resp.tempSession.iat = now
  /\ \A tok \in PendingTokens : tok.exp = tok.iat + TempSessionTTL /\ tok.iat <= now

C2_Witness ==
  /\ last.op = "complete2FALogin"
  /\ last.resp.tokens # NoTokens
  /\ last.tok \in PendingTokens
  /\ last.tok.userId = last.userId
  /\ last.tok.iat < now
  /\ \E tok \in PendingTokens : tok.userId # last.userId

\* C3: once a pending-2FA token has completed a login, presenting the same
\* pending token again is rejected, whatever code comes with it.
C3_PendingTokenSingleUse ==
  (last.op = "complete2FALogin" /\ last.resp.tokens # NoTokens)
    => \A c \in CodeInputs :
         complete2FALogin(users, now, nextId, last.userId, c, last.tok)
           .resp.tokens = NoTokens

\* --------------------------------------------------- lockout properties
\* C4: for an account with no lock, a wrong password that reaches the password
\* check raises failedLoginAttempts by one; the first four failures leave
\* accountLockedUntil unset and answer "Invalid email or password", the fifth
\* sets accountLockedUntil to now + 30 minutes and answers with the lockout
\* rejection; an account without a lock never holds five failures.
C4_FifthFailureLocks ==
  /\ \A u \in UserIds :
       users[u].accountLockedUntil = NoDate => users[u].failedLoginAttempts < 5
  /\ \A i \in LoginInputs :
       LET uid == findActiveByEmail(users, i[1])
           r == login(users, companies, now, nextId, i[1], i[2])
           failed == users[uid].failedLoginAttempts + 1
           after == save(users, r)[uid]
       IN (/\ uid # NoUser
           /\ users[uid].password # bcryptHash(i[2])
           /\ r.resp.msg \notin TenantRejections
           /\ users[uid].accountLockedUntil = NoDate)
          => /\ after.failedLoginAttempts = failed
             /\ r.resp.status = 401
             /\ TokensOf(r.resp) = {}
             /\ IF failed < 5
                THEN /\ after.accountLockedUntil = NoDate
                     /\ r.resp.msg = "Invalid email or password"
                ELSE /\ after.accountLockedUntil = now + 30 * 60
                     /\ r.resp.msg =
                          "Account locked due to too many failed login attempts"

C4_Witness ==
  /\ last.op = "login"
  /\ last.resp.msg = "Account locked due to too many failed login attempts"
  /\ users[last.userId].failedLoginAttempts = 5
  /\ users[last.userId].accountLockedUntil = now + 30 * 60

\* C5: after a login that passes the password check, and after the second
\* step of a 2FA login, the stored failedLoginAttempts is 0 and the stored
\* accountLockedUntil is cleared.
C5_SuccessResetsCounter ==
  /\ \A i \in LoginInputs :
       LET uid == findActiveByEmail(users, i[1])
           r == login(users, companies, now, nextId, i[1], i[2])
       IN (uid # NoUser /\ r.resp.status = 200)
          => /\ save(users, r)[uid].failedLoginAttempts = 0
             /\ save(users, r)[uid].accountLockedUntil = NoDate
  /\ \A u \in UserIds, c \in CodeInputs, tok \in Presentable :
       LET r == complete2FALogin(users, now, nextId, u, c, tok)
       IN r.resp.status = 200
          => /\ save(users, r)[u].failedLoginAttempts = 0
             /\ save(users, r)[u].accountLockedUntil = NoDate

\* C6: while accountLockedUntil is in the future, a login with the correct
\* password is rejected, returns no token pair and no pending-2FA token, and
\* leaves the stored document, refreshTokens included, as it was.
C6_LockedRejectsCorrectPassword ==
  \A i \in LoginInputs :
    LET uid == findActiveByEmail(users, i[1])
        r == login(users, companies, now, nextId, i[1], i[2])
    IN (/\ uid # NoUser
        /\ users[uid].accountLockedUntil > now
        /\ users[uid].password = bcryptHash(i[2]))
       => /\ r.resp.status = 401
          /\ TokensOf(r.resp) = {}
          /\ ~r.resp.requiresTwoFactor
          /\ save(users, r)[uid].refreshTokens = users[uid].refreshTokens
          /\ save(users, r) = users
          /\ r.resp.msg \notin TenantRejections
             => /\ r.resp.msg = "Account is locked"
                /\ r.resp.minutes * 60 >= users[uid].accountLockedUntil - now
                /\ (r.resp.minutes - 1) * 60 < users[uid].accountLockedUntil - now

C6_Witness ==
  /\ last.op = "login"
  /\ last.resp.msg = "Account is locked"
  /\ last.resp.minutes = 20
  /\ users[last.userId].accountLockedUntil > now
  /\ users[last.userId].failedLoginAttempts = 5

\* C7: while accountLockedUntil is in the future, a login that reaches the
\* account answers with the remaining-minutes rejection whatever the password:
\* the response is the same for a correct and a wrong password, and
\* failedLoginAttempts and accountLockedUntil keep their stored values.
C7_LockedLoginIgnoresPassword ==
  \A e \in Emails, pw \in Passwords :
    LET uid == findActiveByEmail(users, e)
        r == login(users, companies, now, nextId, e, pw)
    IN (/\ uid # NoUser
        /\ users[uid].accountLockedUntil > now
        /\ r.resp.msg \notin TenantRejections)
       => /\ r.resp.msg = "Account is locked"
          /\ \A other \in Passwords :
               login(users, companies, now, nextId, e, other).resp = r.resp
          /\ save(users, r)[uid].failedLoginAttempts = users[uid].failedLoginAttempts
          /\ save(users, r)[uid].accountLockedUntil = users[uid].accountLockedUntil

\* ------------------------------------------------------- the session cap
EvictsOldest(uid, r) ==
  (r.resp.tokens # NoTokens /\ Len(users[uid].refreshTokens) = 5)
    => LET old == users[uid].refreshTokens
           new == r.doc.refreshTokens
       IN /\ "refreshTokens" \in r.mod
          /\ r.uid = uid
          /\ Len(new) = 5
          /\ \A k \in 1..4 : new[k] = old[k + 1]
          /\ new[5].token = r.resp.tokens.refreshToken
          /\ new[5].createdAt = now
          /\ \A k \in 2..5 : old[1].id < old[k].id /\ old[1].createdAt <= old[k].createdAt
          /\ \A j, k \in 1..5 : j < k => new[j].id < new[k].id

\* C10: a completed login (single step, or the second step of a 2FA login) on
\* a user that holds five refresh tokens evicts exactly the earliest-issued
\* entry: the four later entries and the new one remain, in issuance order.
C10_EvictsOldest ==
  /\ \A i \in LoginInputs :
       EvictsOldest(findActiveByEmail(users, i[1]),
                    login(users, companies, now, nextId, i[1], i[2]))
  /\ \A u \in UserIds, c \in CodeInputs, tok \in Presentable :
       EvictsOldest(u, complete2FALogin(users, now, nextId, u, c, tok))

C10_Witness ==
  /\ last.op \in {"login", "complete2FALogin"}
  /\ last.resp.tokens # NoTokens
  /\ Len(users[last.userId].refreshTokens) = 5
  /\ users[last.userId].refreshTokens[1].id = 2
  /\ users[last.userId].refreshTokens[5].token = last.resp.tokens.refreshToken

\* ------------------------------------------------------------- rotation
\* C8: a successful refresh that presented R removes R from refreshTokens and
\* inserts the new refresh token, and a later refresh that presents R again is
\* rejected: R is good for exactly one refresh.
C8_RotationRevokesPresented ==
  \A tok \in Presentable :
    LET r == refreshToken(users, now, nextId, tok)
        after == save(users, r)
    IN r.resp.status = 200
       => /\ \A k \in DOMAIN after[tok.userId].refreshTokens :
               after[tok.userId].refreshTokens[k].token # tok
          /\ \E k \in DOMAIN after[tok.userId].refreshTokens :
               after[tok.userId].refreshTokens[k].token = r.resp.tokens.refreshToken
          /\ refreshToken(after, now, nextId + 1, tok).resp.status = 401

EntriesOf(list) == {list[k] : k \in DOMAIN list}

RefreshTokensOf(u) ==
  {tok \in issued : tok.secret = "JWT_REFRESH_SECRET" /\ tok.userId = u}

\* every stored path of a user but refreshTokens is as in the store
OnlySessionsDiffer(after, u) ==
  [after[u] EXCEPT !.refreshTokens = users[u].refreshTokens] = users[u]

\* C11: logout with refresh token R by an authenticated user removes exactly
\* the entries for R from that user's refreshTokens list: every other entry
\* stays, in order, every other stored path and every other user are
\* unchanged; afterwards refresh with R, a token of that user, is rejected and
\* refresh with any entry still listed and unexpired succeeds.
C11_LogoutRemovesExactlyR ==
  \A tok \in Presentable, rt \in Presentable :
    LET a == authenticateToken(users, companies, now, tok)
        uid == a.user.userId
        r == LogoutRun(tok, rt).r
        after == save(users, r)
        old == users[uid].refreshTokens
        new == after[uid].refreshTokens
    IN IF ~a.ok THEN r.mod = {} /\ r.resp.status = 401
       ELSE /\ r.resp.status = 200
            /\ EntriesOf(new) = {e \in EntriesOf(old) : e.token # rt}
            /\ Len(new) = Cardinality({k \in DOMAIN old : old[k].token # rt})
            /\ \A j, k \in DOMAIN new :
                 j < k => IndexOf(old, new[j]) < IndexOf(old, new[k])
            /\ OnlySessionsDiffer(after, uid)
            /\ \A v \in UserIds \ {uid} : after[v] = users[v]
            /\ rt.userId = uid
               => refreshToken(after, now, nextId, rt).resp.status = 401
            /\ \A e \in EntriesOf(new) :
                 e.expiresAt > now
                 => refreshToken(after, now, nextId, e.token).resp.status = 200

C11_Witness ==
  /\ last.op = "logout"
  /\ last.resp.status = 200
  /\ last.revoked
  /\ last.tok \in RefreshTokensOf(last.userId)
  /\ users[last.userId].refreshTokens # <<>>
  /\ \A e \in EntriesOf(users[last.userId].refreshTokens) : e.token # last.tok

\* a request that logs the user in: it hands out a new token pair after the
\* password, or after the password and the second factor
LoggedIn(call, u) ==
  /\ call.op \in {"login", "complete2FALogin"}
  /\ call.userId = u
  /\ call.resp.tokens # NoTokens

LogoutAllEmpties ==
  \A tok \in Presentable :
    LET a == authenticateToken(users, companies, now, tok)
        uid == a.user.userId
        r == LogoutAllRun(tok).r
        after == save(users, r)
    IN IF ~a.ok THEN r.mod = {} /\ r.resp.status = 401
       ELSE /\ r.resp.status = 200
            /\ after[uid].refreshTokens = <<>>
            /\ \A rt \in Presentable :
                 rt.userId = uid
                 => refreshToken(after, now, nextId, rt).resp.status = 401

RefreshNeedsListedToken ==
  \A rt \in Presentable :
    refreshToken(users, now, nextId, rt).resp.status = 200
    => /\ rt.userId \in UserIds
       /\ \E e \in EntriesOf(users[rt.userId].refreshTokens) : e.token = rt

EmptyUntilLogin ==
  \A u \in UserIds :
    (users[u].refreshTokens = <<>> /\ users'[u].refreshTokens # <<>>)
    => LoggedIn(last', u)

\* C12: logout-all by an authenticated user leaves that user's refreshTokens
\* list empty, and refresh then rejects every refresh token handed out for
\* the user; refresh accepts only a token that is listed, and an empty list
\* stays empty until a login of that user issues a new token.
C12_LogoutAllRevokesEverything ==
  /\ [](LogoutAllEmpties /\ RefreshNeedsListedToken)
  /\ [][EmptyUntilLogin]_vars

C12_Witness ==
  /\ last.op = "logoutAll"
  /\ last.resp.status = 200
  /\ last.revoked
  /\ users[last.userId].refreshTokens = <<>>
  /\ Cardinality(RefreshTokensOf(last.userId)) >= 2

\* C13: changePassword by an authenticated, email-verified user with the
\* correct current password and a new password of at least 8 characters stores
\* the hash of the new password and empties the user's refreshTokens list, so
\* that refresh rejects every refresh token handed out for the user and a
\* login needs the new password; with a wrong current password or a new
\* password shorter than 8 characters the stored users are unchanged.
C13_ChangePasswordRevokesSessions ==
  \A tok \in Presentable, cur \in Passwords, new \in NewPasswords :
    LET a == authenticateToken(users, companies, now, tok)
        uid == a.user.userId
        r == ChangePasswordRun(tok, cur, new).r
        after == save(users, r)
    IN (a.ok /\ a.user.isEmailVerified)
       => IF users[uid].password = bcryptHash(cur) /\ Len(new) >= 8
          THEN /\ r.resp.status = 200
               /\ after[uid].password = bcryptHash(new)
               /\ bcryptCompare(new, after[uid].password)
               /\ new # cur => ~bcryptCompare(cur, after[uid].password)
               /\ after[uid].refreshTokens = <<>>
               /\ \A rt \in Presentable :
                    rt.userId = uid
                    => refreshToken(after, now, nextId, rt).resp.status = 401
               /\ \A v \in UserIds \ {uid} : after[v] = users[v]
          ELSE /\ r.resp.status = 400
               /\ TokensOf(r.resp) = {}
               /\ after = users

C13_Witness ==
  /\ last.op = "changePassword"
  /\ last.resp.status = 200
  /\ last.revoked
  /\ users[last.userId].password = bcryptHash("Passw0rd!!")
  /\ users[last.userId].refreshTokens = <<>>
  /\ RefreshTokensOf(last.userId) # {}

\* C14: after a successful changePassword, authenticateToken rejects every
\* access token handed out for that user before the change, whether or not the
\* token has reached its 15-minute expiry.
C14_PasswordChangeRejectsAccessTokens ==
  \A tok \in Presentable, cur \in Passwords, new \in NewPasswords :
    LET r == ChangePasswordRun(tok, cur, new).r
        after == save(users, r)
    IN r.resp.status = 200
       => \A at \in issued :
            (at.secret = "JWT_SECRET" /\ at.userId = tok.userId)
            => ~authenticateToken(after, companies, now, at).ok

\* ------------------------------------------------ two-factor management
\* C15: every successful operation that turns a user's twoFactorAuth.enabled
\* from true to false (disable2FA, the admin disable route, the admin reset
\* route) leaves that user, in the document it saves, with the secret cleared,
\* no backup codes and an empty refreshTokens list.
C15_DisablingClearsEverything ==
  \A tok \in Presentable, u \in UserIds, pw \in Passwords,
     c \in ManageCodes \cup {NoCode} :
    \A r \in {Disable2FARun(tok, pw, c).r,
              AdminDisable2FARun(tok, u).r,
              AdminReset2FARun(tok, u).r} :
      \A v \in UserIds :
        LET after == save(users, r)[v]
        IN (users[v].twoFactorAuth.enabled /\ ~after.twoFactorAuth.enabled)
           => /\ r.resp.status = 200
              /\ after.twoFactorAuth.secret = NoSecret
              /\ after.twoFactorAuth.backupCodes = <<>>
              /\ after.refreshTokens = <<>>

\* C16: in every state reached through generate2FASetup, verifyAndEnable2FA,
\* disable2FA and the admin enable, disable and reset routes, a user whose
\* twoFactorAuth.enabled is true has a stored secret.
C16_EnabledHasSecret ==
  \A u \in UserIds :
    users[u].twoFactorAuth.enabled => users[u].twoFactorAuth.secret # NoSecret

\* C17: verifyAndEnable2FA by an authenticated, email-verified user whose 2FA
\* is not enabled, with a code valid for the stored secret, sets enabled, stores
\* exactly 10 hashed backup codes, those of the response, and empties the
\* user's refreshTokens list, so that refresh rejects every earlier refresh
\* token; with an invalid code, without a stored secret, or with 2FA already
\* enabled it is rejected and the stored users are unchanged.
C17_VerifySetupEnables ==
  \A tok \in Presentable, c \in ManageCodes :
    LET a == authenticateToken(users, companies, now, tok)
        uid == a.user.userId
        r == VerifyAndEnable2FARun(tok, c).r
        after == save(users, r)
        tfa == users[uid].twoFactorAuth
        valid == \E k \in -TotpWindow..TotpWindow :
                   c = TotpCode(tfa.secret, now \div TotpStep + k)
    IN (a.ok /\ a.user.isEmailVerified)
       => IF tfa.secret # NoSecret /\ ~tfa.enabled /\ valid
          THEN /\ r.resp.status = 200
               /\ after[uid].twoFactorAuth.enabled
               /\ after[uid].twoFactorAuth.secret = tfa.secret
               /\ Len(after[uid].twoFactorAuth.backupCodes) = 10
               /\ Len(r.resp.backupCodes) = 10
               /\ \A k \in 1..10 :
                    /\ after[uid].twoFactorAuth.backupCodes[k] = sha256(r.resp.backupCodes[k])
                    /\ after[uid].twoFactorAuth.backupCodes[k] # r.resp.backupCodes[k]
               /\ after[uid].refreshTokens = <<>>
               /\ \A rt \in Presentable :
                    rt.userId = uid
                    => refreshToken(after, now, nextId + 1, rt).resp.status = 401
               /\ \A v \in UserIds \ {uid} : after[v] = users[v]
          ELSE /\ r.resp.status = 400
               /\ r.resp.backupCodes = <<>>
               /\ after = users

C17_Witness ==
  /\ last.op = "verifyAndEnable2FA"
  /\ last.resp.status = 200
  /\ last.revoked
  /\ users[last.userId].twoFactorAuth.enabled
  /\ users[last.userId].twoFactorAuth.secret \in SetupSecrets
  /\ Len(users[last.userId].twoFactorAuth.backupCodes) = 10
  /\ users[last.userId].refreshTokens = <<>>

StoredCodes(db, u) == EntriesOf(db[u].twoFactorAuth.backupCodes)

\* a verification with a stored backup code that succeeds spends the code: the
\* list loses one entry, the code is no longer stored, and both endpoints
\* reject the code from then on
SpendsCode(u, c, r) ==
  LET after == save(users, r)
  IN (sha256(c) \in StoredCodes(users, u) /\ r.resp.status = 200)
     => /\ r.resp.usedBackupCode
        /\ Len(after[u].twoFactorAuth.backupCodes)
             = Len(users[u].twoFactorAuth.backupCodes) - 1
        /\ sha256(c) \notin StoredCodes(after, u)
        /\ StoredCodes(after, u) \subseteq StoredCodes(users, u)
        /\ verify2FAToken(after, now, u, c).resp.status = 400
        /\ \A tok \in Presentable :
             complete2FALogin(after, now, nextId + 1, u, c, tok).resp.status # 200

BackupCodeSpentOnce ==
  \A u \in UserIds, c \in ManageCodes :
    /\ SpendsCode(u, c, verify2FAToken(users, now, u, c))
    /\ \A tok \in Presentable :
         SpendsCode(u, c, complete2FALogin(users, now, nextId, u, c, tok))
    /\ (/\ sha256(c) \in StoredCodes(users, u)
        /\ users[u].isActive
        /\ users[u].twoFactorAuth.enabled)
       => /\ verify2FAToken(users, now, u, c).resp.status = 200
          /\ verify2FAToken(users, now, u, c).resp.remainingBackupCodes
               = Len(users[u].twoFactorAuth.backupCodes) - 1
          /\ \A tok \in PendingTokens :
               (tok.userId = u /\ now < tok.exp)
               => complete2FALogin(users, now, nextId, u, c, tok).resp.status = 200

\* every stored code is of a batch drawn by an earlier request
StoredCodesAreOld ==
  \A u \in UserIds :
    \A h \in StoredCodes(users, u) : h.sha256.counter < nextId

\* a code enters a list only with a new batch
CodesNeverReturn ==
  \A u \in UserIds :
    \A h \in StoredCodes(users', u) :
      h \in StoredCodes(users, u) \/ h.sha256.counter = nextId

\* C18: a backup code is one-time: the first 2FA verification with a stored
\* backup code, through complete2FALogin or verify2FAToken, succeeds with
\* usedBackupCode and takes exactly that code off the stored list, and every
\* later verification with the code fails at both endpoints, since a spent code
\* never enters a list again.
C18_BackupCodeOneTime ==
  /\ [](BackupCodeSpentOnce /\ StoredCodesAreOld)
  /\ [][CodesNeverReturn]_vars

C18_Witness ==
  /\ last.op \in {"verify2FAToken", "complete2FALogin"}
  /\ last.resp.status = 200
  /\ last.resp.usedBackupCode
  /\ Len(users[last.userId].twoFactorAuth.backupCodes) = BackupCodeCount - 1
  /\ \A h \in StoredCodes(users, last.userId) : h.sha256.key # "code-01"

\* the code is in the TOTP window of the user's stored secret
InTotpWindow(u, c) ==
  \E k \in -TotpWindow..TotpWindow :
    c = TotpCode(users[u].twoFactorAuth.secret, now \div TotpStep + k)

VerificationFrame(u, c, r) ==
  /\ (~InTotpWindow(u, c) /\ sha256(c) \notin StoredCodes(users, u))
     => /\ r.resp.status # 200
        /\ TokensOf(r.resp) = {}
        /\ r.mod = {}
  /\ (InTotpWindow(u, c) /\ r.resp.status = 200)
     => /\ ~r.resp.usedBackupCode
        /\ save(users, r)[u].twoFactorAuth.backupCodes
             = users[u].twoFactorAuth.backupCodes
        /\ save(users, r)[u].twoFactorAuth.lastUsedAt = now

\* C19: a 2FA verification, in complete2FALogin or verify2FAToken, with a code
\* that is neither in the TOTP window of the stored secret nor a stored backup
\* code is rejected and changes nothing in the stored users (backup codes,
\* lastUsedAt, refreshTokens, login metadata, lockout counters); a verification
\* that succeeds on the TOTP path leaves the backup codes as they were.
C19_FailedVerificationChangesNothing ==
  \A u \in UserIds, c \in ManageCodes :
    /\ VerificationFrame(u, c, verify2FAToken(users, now, u, c))
    /\ \A tok \in PendingTokens \cup {ForgedToken} :
         VerificationFrame(u, c, complete2FALogin(users, now, nextId, u, c, tok))

C19_Witness ==
  /\ last.op \in {"verify2FAToken", "complete2FALogin"}
  /\ last.resp.msg = "Invalid 2FA code or backup code"
  /\ users[Employee].twoFactorAuth.enabled
  /\ users[Employee].twoFactorAuth.lastUsedAt < now
  /\ Len(users[Employee].twoFactorAuth.backupCodes) = BackupCodeCount
  /\ users[Employee].refreshTokens # <<>>

\* C20: regenerateBackupCodes by an authenticated, email-verified user with
\* the correct password and 2FA enabled, and no TOTP code in the request,
\* replaces the stored backup codes by the hashes of 10 new codes: no code of
\* the previous list is stored or accepted by either verification afterwards,
\* and enabled, secret, refreshTokens and every other path are unchanged; with
\* a wrong password or 2FA not enabled it is rejected and nothing changes.
C20_RegenerateReplacesCodes ==
  \A tok \in Presentable, pw \in Passwords :
    LET a == authenticateToken(users, companies, now, tok)
        uid == a.user.userId
        r == RegenerateBackupCodesRun(tok, pw).r
        after == save(users, r)
        old == users[uid].twoFactorAuth.backupCodes
        new == after[uid].twoFactorAuth.backupCodes
    IN (a.ok /\ a.user.isEmailVerified)
       => IF users[uid].password = bcryptHash(pw) /\ users[uid].twoFactorAuth.enabled
          THEN /\ r.resp.status = 200
               /\ Len(new) = 10
               /\ Len(r.resp.backupCodes) = 10
               /\ \A k \in 1..10 : new[k] = sha256(r.resp.backupCodes[k])
               /\ EntriesOf(new) \cap EntriesOf(old) = {}
               /\ \A k \in DOMAIN old :
                    /\ verify2FAToken(after, now, uid, old[k].sha256).resp.status = 400
                    /\ \A pt \in Presentable :
                         complete2FALogin(after, now, nextId + 1, uid, old[k].sha256, pt)
                           .resp.status # 200
               /\ [after EXCEPT ![uid].twoFactorAuth.backupCodes = old] = users
          ELSE /\ r.resp.status = 400
               /\ r.resp.backupCodes = <<>>
               /\ after = users

C20_Witness ==
  /\ last.op = "regenerateBackupCodes"
  /\ last.resp.status = 200
  /\ users[last.userId].twoFactorAuth.enabled
  /\ users[last.userId].refreshTokens # <<>>
  /\ Len(users[last.userId].twoFactorAuth.backupCodes) = 10
  /\ hashCodes(last.resp.backupCodes) = users[last.userId].twoFactorAuth.backupCodes
  /\ sha256(BackupCode(BackupNames[last.userId][1]))
       \notin StoredCodes(users, last.userId)

\* ------------------------------------- user and company administration
\* the userType enum of the User schema
UserTypes == StorageUserTypes \cup ClientUserTypes

\* the keys of the body that PUT /api/users/:userId copies; manageUsers stands
\* for permissions, of which the model keeps administration.manageUsers
AllowedUpdates == {"userType", "manageUsers", "isActive"}

\* the scope check of the user routes.  Only a storage-admin caller is
\* compared: the company of the target against the _id of the company in the
\* caller's token.  A target without a company, or a token whose company is a
\* bare string, makes the comparison throw
scopeCheck(principal, user) ==
  IF principal.role = "guardian-admin" \/ principal.role # "storage-admin"
  THEN "pass"
  ELSE IF user.storageCompanyId = NoRef \/ ~principal.storageCompanyId.populated
  THEN "throw"
  ELSE IF user.storageCompanyId # principal.storageCompanyId.id
  THEN "forbidden"
  ELSE "pass"

\* PUT /api/users/:userId
updateUser(db, principal, userId, updates) ==
  LET user == db[userId]
      keys == DOMAIN updates \cap AllowedUpdates
      updated == [f \in DOMAIN user |-> IF f \in keys THEN updates[f] ELSE user[f]]
      scope == scopeCheck(principal, user)
  IN IF userId \notin UserIds
     THEN NoSave(Resp(404, "User not found"))
     ELSE IF scope = "forbidden"
     THEN NoSave(Resp(403, "Cannot modify users from other storage companies"))
     ELSE IF \/ scope = "throw"
             \/ "userType" \in keys /\ updated.userType \notin UserTypes
             \/ ~saveValidates(updated)
     THEN NoSave(Resp(500, "Failed to update user"))
     ELSE Saved(Resp(200, "User updated successfully"), userId, updated, keys)

\* DELETE /api/users/:userId
deleteUser(db, principal, userId) ==
  LET user == db[userId]
      scope == scopeCheck(principal, user)
  IN IF userId \notin UserIds
     THEN NoSave(Resp(404, "User not found"))
     ELSE IF scope = "forbidden"
     THEN NoSave(Resp(403, "Cannot delete users from other storage companies"))
     ELSE IF scope = "throw"
     THEN NoSave(Resp(500, "Failed to delete user"))
     ELSE IF userId = principal.userId
     THEN NoSave(Resp(400, "Cannot delete your own account"))
     ELSE IF ~saveValidates(user)
     THEN NoSave(Resp(500, "Failed to delete user"))
     ELSE Saved(Resp(200, "User deleted successfully"), userId,
                [user EXCEPT !.isActive = FALSE], {"isActive"})

\* the registrationStatus enum of the StorageCompany schema
RegistrationStatuses ==
  {"pending", "email-verified", "setup-completed", "active", "suspended"}
NoStatus == "none"

\* a run of a company route: its response and the collection it leaves
CompanyResult(resp, cos) == [resp |-> resp, cos |-> cos]

CompanyDenied(cos) ==
  CompanyResult(Resp(403, "Access denied. GUARDIAN admin privileges required."), cos)

\* PUT /api/companies/:companyId, on the status of the body
updateCompany(cos, principal, companyId, status) ==
  IF principal.role # "guardian-admin" THEN CompanyDenied(cos)
  ELSE IF companyId \notin DOMAIN cos
  THEN CompanyResult(Resp(404, "Company not found"), cos)
  ELSE IF status = NoStatus
  THEN CompanyResult(Resp(200, "Company updated successfully"), cos)
  ELSE IF status \notin RegistrationStatuses
  THEN CompanyResult(Resp(500, "Failed to update company"), cos)
  ELSE CompanyResult(Resp(200, "Company updated successfully"),
                     [cos EXCEPT ![companyId].registrationStatus = status,
                                 ![companyId].isActive = (status = "active")])

\* DELETE /api/companies/:companyId
deleteCompany(cos, db, principal, companyId) ==
  LET activeUsers ==
        Cardinality({u \in UserIds :
                       db[u].storageCompanyId = companyId /\ db[u].isActive})
  IN IF principal.role # "guardian-admin" THEN CompanyDenied(cos)
     ELSE IF companyId \notin DOMAIN cos
     THEN CompanyResult(Resp(404, "Company not found"), cos)
     ELSE IF activeUsers > 0
     THEN CompanyResult(Resp(400, "Cannot delete company with active users"), cos)
     ELSE CompanyResult(Resp(200, "Company deactivated successfully"),
                        [cos EXCEPT ![companyId].registrationStatus = "suspended"])

\* POST /api/companies/:companyId/activate
activateCompany(cos, principal, companyId) ==
  IF principal.role # "guardian-admin" THEN CompanyDenied(cos)
  ELSE IF companyId \notin DOMAIN cos
  THEN CompanyResult(Resp(404, "Company not found"), cos)
  ELSE CompanyResult(Resp(200, "Company activated successfully"),
                     [cos EXCEPT ![companyId].registrationStatus = "active"])

\* POST /api/companies/:companyId/suspend
suspendCompany(cos, principal, companyId) ==
  IF principal.role # "guardian-admin" THEN CompanyDenied(cos)
  ELSE IF companyId \notin DOMAIN cos
  THEN CompanyResult(Resp(404, "Company not found"), cos)
  ELSE CompanyResult(Resp(200, "Company suspended successfully"),
                     [cos EXCEPT ![companyId].registrationStatus = "suspended"])

\* optionalAuth: the principal it attaches to the request, if any
optionalAuth(db, t, tok) ==
  IF tok = NoToken THEN NoPrincipal
  ELSE IF ~jwtVerify(tok, "JWT_SECRET", t) THEN NoPrincipal
  ELSE IF tok.userId \notin UserIds \/ ~db[tok.userId].isActive THEN NoPrincipal
  ELSE [userId |-> tok.userId, role |-> tok.role,
        manageUsers |-> tok.manageUsers,
        isEmailVerified |-> tok.isEmailVerified,
        storageCompanyId |-> tok.storageCompanyId]

\* authenticateToken, then the route
UpdateUserRun(tok, u, updates) ==
  Run("updateUser", u, tok,
      LET H(principal) == updateUser(users, principal, u, updates) IN Guarded(tok, H))

DeleteUserRun(tok, u) ==
  Run("deleteUser", u, tok,
      LET H(principal) == deleteUser(users, principal, u) IN Guarded(tok, H))

\* a company route behind authenticateToken
CompanyRun(op, tok, denied, r) ==
  [op |-> op, tok |-> tok, r |-> IF denied.ok THEN r ELSE CompanyResult(denied.resp, companies)]

UpdateCompanyRun(tok, c, status) ==
  LET a == authenticateToken(users, companies, now, tok)
  IN CompanyRun("updateCompany", tok, a, updateCompany(companies, a.user, c, status))

DeleteCompanyRun(tok, c) ==
  LET a == authenticateToken(users, companies, now, tok)
  IN CompanyRun("deleteCompany", tok, a, deleteCompany(companies, users, a.user, c))

ActivateCompanyRun(tok, c) ==
  LET a == authenticateToken(users, companies, now, tok)
  IN CompanyRun("activateCompany", tok, a, activateCompany(companies, a.user, c))

SuspendCompanyRun(tok, c) ==
  LET a == authenticateToken(users, companies, now, tok)
  IN CompanyRun("suspendCompany", tok, a, suspendCompany(companies, a.user, c))

\* administration: the user routes and the company routes against logins and
\* rotation.  u1 is the platform administrator or the administrator of another
\* storage company, u2 an employee or the administrator of the company
OtherCompanyId == "c2"
CompanyIds == {CompanyId, OtherCompanyId}

AdminProfiles == {"guardian-admin", "storage-admin"}
MemberProfiles == {"storage-employee", "storage-admin"}

InitAdmin ==
  /\ \E p1 \in AdminProfiles, p2 \in MemberProfiles, tfa2 \in BOOLEAN :
       users = [u \in UserIds |->
                  IF u = "u1"
                  THEN IF p1 = "guardian-admin" THEN GuardianAdmin(u, 1)
                       ELSE [UserDoc(u, p1, NoRef, TRUE, FALSE, 0, 1) EXCEPT
                               !.storageCompanyId = OtherCompanyId]
                  ELSE UserDoc(u, p2, NoRef, TRUE, tfa2, SeedSessions + 1, 1)]
  /\ \E c \in ActiveCompany : companies = [id \in CompanyIds |-> c]
  /\ now = StartTime
  /\ ticks = 0
  /\ nextId = 2 * SeedSessions + 3
  /\ issued = SeedIssued(users)
  /\ inflight = [p \in Procs |-> Idle]
  /\ last = NoCall

\* the bodies of PUT /api/users/:userId: a role, a role outside the enum, the
\* permission, the flag, and a field the route does not copy
UpdateInputs ==
  {[userType |-> "storage-admin"], [userType |-> "storage-employee"],
   [userType |-> "guardian-admin"], [manageUsers |-> TRUE],
   [isActive |-> FALSE], [isActive |-> TRUE], [refreshTokens |-> <<>>]}

StatusInputs == {"active", "suspended", NoStatus}

\* the user that is managed, and the company it belongs to
Managed == "u2"

\* a company route that changed the collection
CompanyFinish(x) ==
  /\ x.r.cos # companies
  /\ companies' = x.r.cos
  /\ last' = [NoCall EXCEPT !.op = x.op, !.resp = x.r.resp]
  /\ UNCHANGED <<users, now, ticks, nextId, issued, inflight>>

\* the token pairs handed out while the users are administered
AdminIssuing == nextId < 2 * SeedSessions + 3 + MaxAdminIssued

AdminLogin ==
  /\ AdminIssuing
  /\ \E x \in {LoginRun(Managed, InitialPassword)} : Effective(x)
AdminRefreshToken ==
  /\ AdminIssuing
  /\ \E x \in {RefreshTokenRun(tok) : tok \in Presentable} : Effective(x)
UpdateUser ==
  \E x \in {UpdateUserRun(tok, Managed, updates)
              : tok \in Presentable, updates \in UpdateInputs} :
    Effective(x)
DeleteUser ==
  \E x \in {DeleteUserRun(tok, Managed) : tok \in Presentable} : Effective(x)
AdminUpdateUserRole ==
  \E x \in {UpdateUserRoleRun(tok, Managed, "storage-manager") : tok \in Presentable} :
    Effective(x)
UpdateCompany ==
  \E x \in {UpdateCompanyRun(tok, CompanyId, status)
              : tok \in Presentable, status \in StatusInputs} :
    CompanyFinish(x)
DeleteCompany ==
  \E x \in {DeleteCompanyRun(tok, CompanyId) : tok \in Presentable} : CompanyFinish(x)
ActivateCompany ==
  \E x \in {ActivateCompanyRun(tok, CompanyId) : tok \in Presentable} : CompanyFinish(x)
SuspendCompany ==
  \E x \in {SuspendCompanyRun(tok, CompanyId) : tok \in Presentable} : CompanyFinish(x)
NextAdmin ==
  \/ AdminLogin
  \/ AdminRefreshToken
  \/ UpdateUser
  \/ DeleteUser
  \/ AdminUpdateUserRole
  \/ UpdateCompany
  \/ DeleteCompany
  \/ ActivateCompany
  \/ SuspendCompany
SpecAdmin == InitAdmin /\ [][NextAdmin]_vars

\* ------------------------------------------------ administration properties
\* the codes a client can send with a pending token: the current code of the
\* stored secret, the next stored backup code, and digits that are neither
SecondFactorCodes(u) ==
  {TotpCode(users[u].twoFactorAuth.secret, now \div TotpStep), BadCode}
    \cup {users[u].twoFactorAuth.backupCodes[k].sha256
            : k \in DOMAIN users[u].twoFactorAuth.backupCodes}

\* C21: while a user's isActive is false every authentication path fails for
\* that user: login, complete2FALogin and refresh hand out no token and save
\* nothing, and authenticateToken rejects every access token of the user, also
\* the unexpired ones that were issued while the user was active.
C21_InactiveUserFailsEverywhere ==
  \A u \in UserIds :
    ~users[u].isActive =>
      /\ \A pw \in Passwords :
           LET r == login(users, companies, now, nextId, users[u].email, pw)
           IN r.resp.status = 401 /\ TokensOf(r.resp) = {} /\ r.mod = {}
      /\ \A c \in SecondFactorCodes(u), tok \in Presentable \cup {tempSessionToken(u, now)} :
           LET r == complete2FALogin(users, now, nextId, u, c, tok)
           IN r.resp.status # 200 /\ TokensOf(r.resp) = {} /\ r.mod = {}
      /\ \A tok \in {x \in Presentable : x.userId = u} :
           LET r == refreshToken(users, now, nextId, tok)
           IN r.resp.status = 401 /\ TokensOf(r.resp) = {} /\ r.mod = {}
      /\ \A tok \in {x \in Presentable : x.userId = u} :
           ~authenticateToken(users, companies, now, tok).ok

\* a user with 2FA enabled was deleted while it held an unexpired access token,
\* a listed refresh token and an unexpired pending token
C21_Witness ==
  /\ last.op = "deleteUser" /\ last.resp.status = 200
  /\ ~users[Managed].isActive
  /\ users[Managed].twoFactorAuth.enabled
  /\ \E tok \in issued :
       tok.userId = Managed /\ tok.step = "none" /\ jwtVerify(tok, "JWT_SECRET", now)
  /\ \E tok \in issued : tokenExists(users[Managed].refreshTokens, tok, now)
  /\ \E tok \in PendingTokens : tempSessionValid(tok, Managed, now)

\* the users linked to a company that are not platform administrators
MembersOf(c) ==
  {u \in UserIds : users[u].storageCompanyId = c /\ users[u].userType # "guardian-admin"}

RejectsMembersOfInactiveCompany ==
  \A c \in DOMAIN companies :
    companies[c].registrationStatus # "active" =>
      \A tok \in Presentable :
        tok.userId \in MembersOf(c)
          => ~authenticateToken(users, companies, now, tok).ok

\* a company route that takes a company out of service leaves it in a status
\* other than active
DeactivationSetsStatus ==
  \A c \in DOMAIN companies :
    (companies[c].isActive /\ companies[c].registrationStatus = "active"
       /\ companies'[c] # companies[c]
       /\ ~(companies'[c].isActive /\ companies'[c].registrationStatus = "active"))
      => companies'[c].registrationStatus # "active"

\* C22: whenever a storage company is not in active status, authenticateToken
\* rejects every request of every user linked to it that is not a platform
\* administrator, whatever token the user holds; and the company routes that
\* suspend or deactivate a company put it in such a status.
C22_InactiveCompanyRejectsMembers ==
  [](RejectsMembersOfInactiveCompany) /\ [][DeactivationSetsStatus]_vars

\* the company was suspended while an active user linked to it holds an
\* unexpired access token
C22_Witness ==
  /\ last.op = "suspendCompany" /\ last.resp.status = 200
  /\ companies[CompanyId].registrationStatus = "suspended"
  /\ \E tok \in issued :
       /\ tok.userId \in MembersOf(CompanyId)
       /\ users[tok.userId].isActive
       /\ tok.step = "none" /\ jwtVerify(tok, "JWT_SECRET", now)

\* C23: optionalAuth attaches a principal to a request exactly when
\* authenticateToken would accept the same request in the same store state,
\* and then the same principal; in every other case it continues with none.
C23_OptionalAuthAgrees ==
  \A tok \in Presentable \cup {NoToken} :
    LET a == authenticateToken(users, companies, now, tok)
        p == optionalAuth(users, now, tok)
    IN /\ (p # NoPrincipal) <=> a.ok
       /\ a.ok => p = a.user

\* a run changed the role or the permissions of user u
ChangesRole(u, r) ==
  /\ r.resp.status = 200
  /\ \/ save(users, r)[u].userType # users[u].userType
     \/ save(users, r)[u].manageUsers # users[u].manageUsers

\* C24: every successful operation that changes a user's role or permissions
\* (updateUserRole, PUT /api/users/:userId) leaves that user with an empty
\* refreshTokens list, so no refresh token issued before it is exchanged.
C24_RoleChangeEmptiesSessions ==
  \A tok \in Presentable, u \in UserIds :
    \A r \in {UpdateUserRoleRun(tok, u, ut).r : ut \in RoleInputs}
               \cup {UpdateUserRun(tok, u, updates).r : updates \in UpdateInputs} :
      ChangesRole(u, r) =>
        /\ save(users, r)[u].refreshTokens = <<>>
        /\ \A rt \in issued :
             rt.userId = u
               => refreshToken(save(users, r), now, nextId, rt).resp.status # 200

\* ------------------------------------------------------ lockout properties
\* C25: in every store state, login answers a wrong password for an existing
\* active account with the status and message it gives for an email that
\* matches no active account.
C25_WrongPasswordLooksLikeUnknownAccount ==
  \A u \in UserIds, pw \in Passwords :
    (users[u].isActive /\ ~bcryptCompare(pw, users[u].password)) =>
      LET known == login(users, companies, now, nextId, users[u].email, pw).resp
          unknown == login(users, companies, now, nextId, NoUser, pw).resp
      IN known.status = unknown.status /\ known.msg = unknown.msg

\* -------------------------------------------------- pending-token properties
\* the access tokens that clients hold
AccessTokens == {tok \in issued : tok.secret = "JWT_SECRET" /\ tok.step = "none"}

\* an access token presented as the pending token is rejected
AccessTokenIsNoPendingToken ==
  \A tok \in AccessTokens, u \in UserIds, c \in CodeInputs :
    complete2FALogin(users, now, nextId, u, c, tok).resp.status = 401

\* C26: a pending-2FA token returned by login is never accepted by
\* authenticateToken as an access token, and an access token presented as the
\* pending token is rejected by complete2FALogin.
C26_PendingTokenIsNoAccessToken ==
  /\ \A tok \in PendingTokens : ~authenticateToken(users, companies, now, tok).ok
  /\ AccessTokenIsNoPendingToken

\* the caller is a platform administrator, or an administrator of the storage
\* company of the target
AdminInScope(caller, target) ==
  \/ caller.userType = "guardian-admin"
  \/ /\ caller.userType \in {"storage-admin", "client-admin"}
     /\ caller.storageCompanyId = target.storageCompanyId

\* a run changed the role, the permissions or the isActive flag of user u
ChangesAccount(u, r) ==
  \/ ChangesRole(u, r)
  \/ r.resp.status = 200 /\ save(users, r)[u].isActive # users[u].isActive

\* C27: a user's role, permissions or isActive flag is changed (through PUT or
\* DELETE /api/users/:userId or updateUserRole) only by a platform
\* administrator or by an administrator whose scope contains the target.
C27_OnlyScopedAdminsChangeAccounts ==
  \A tok \in Presentable, u \in UserIds :
    \A r \in {UpdateUserRun(tok, u, updates).r : updates \in UpdateInputs}
               \cup {DeleteUserRun(tok, u).r}
               \cup {UpdateUserRoleRun(tok, u, ut).r : ut \in RoleInputs} :
      ChangesAccount(u, r) =>
        tok.userId \in UserIds /\ AdminInScope(users[tok.userId], users[u])

\* C28: while a user's accountLockedUntil is in the future no operation hands
\* out a token pair for that user: neither login, nor complete2FALogin with a
\* pending token minted before the lock, nor refresh with a refresh token
\* issued before the lock.
C28_NoTokensWhileLocked ==
  \A u \in UserIds :
    isLocked(users[u], now) =>
      /\ \A pw \in Passwords :
           login(users, companies, now, nextId, users[u].email, pw).resp.tokens = NoTokens
      /\ \A tok \in Presentable, c \in SecondFactorCodes(u) :
           complete2FALogin(users, now, nextId, u, c, tok).resp.tokens = NoTokens
      /\ \A tok \in {x \in Presentable : x.userId = u} :
           refreshToken(users, now, nextId, tok).resp.tokens = NoTokens

\* a step assigned user u a new lock that lies in the future
LockAssigned(u) ==
  /\ users'[u].accountLockedUntil # users[u].accountLockedUntil
  /\ users'[u].accountLockedUntil # NoDate
  /\ users'[u].accountLockedUntil > now'

\* C29: accountLockedUntil is set only when the counter reaches the threshold:
\* in every step that assigns a user a new future lock, failedLoginAttempts
\* after the step is exactly 5, so a failure while the account is locked, or
\* the first failure after a lock has expired, neither sets nor extends it.
C29_LockOnlyAtThreshold ==
  [][\A u \in UserIds : LockAssigned(u) => users'[u].failedLoginAttempts = LockThreshold]_vars

\* the account is out of a lock that has run out, and nothing else keeps the
\* user from logging in
LockExpired(u) ==
  /\ users[u].isActive
  /\ users[u].storageCompanyId # NoRef
  /\ isActiveOf(companies[users[u].storageCompanyId])
  /\ users[u].clientBusinessId = NoRef
  /\ users[u].accountLockedUntil # NoDate
  /\ ~(users[u].accountLockedUntil > now)

\* C30: lockout is timed: once the clock has passed accountLockedUntil, a login
\* of a locked active user of an active company with the correct password is
\* accepted, and the stored failedLoginAttempts and accountLockedUntil are
\* reset, without any other action.
C30_LockoutExpires ==
  \A u \in UserIds, pw \in Passwords :
    (LockExpired(u) /\ bcryptCompare(pw, users[u].password)) =>
      LET r == login(users, companies, now, nextId, users[u].email, pw)
      IN /\ r.resp.status = 200
         /\ save(users, r)[u].failedLoginAttempts = 0
         /\ save(users, r)[u].accountLockedUntil = NoDate

\* ----------------------------------------------- tenant-liveness properties
\* the access token of a pair that was just returned is accepted
PairIsUsable(r) ==
  r.resp.tokens # NoTokens =>
    authenticateToken(save(users, r), companies, now, r.resp.tokens.accessToken).ok

\* C31: whenever login, complete2FALogin or refresh returns a token pair to a
\* user that is not a platform administrator, authenticateToken accepts the
\* returned access token in the same store state: there is no company status
\* in which tokens are issued but every authenticated request is rejected.
C31_IssuedTokensAreAccepted ==
  \A u \in {v \in UserIds : users[v].userType # "guardian-admin"} :
    /\ \A pw \in Passwords :
         PairIsUsable(login(users, companies, now, nextId, users[u].email, pw))
    /\ \A c \in SecondFactorCodes(u), tok \in Presentable :
         PairIsUsable(complete2FALogin(users, now, nextId, u, c, tok))
    /\ \A tok \in {x \in Presentable : x.userId = u} :
         PairIsUsable(refreshToken(users, now, nextId, tok))

\* ---------------------------------------------------- permission properties
\* the permission map of a token payload or of a user document, of which the
\* model keeps administration.manageUsers; clientOperations.manageUsers has
\* its schema default
PermissionMap(holder) ==
  [administration |-> [manageUsers |-> holder.manageUsers],
   clientOperations |-> [manageUsers |-> FALSE]]

\* permissions[category] && permissions[category][action] === true
permissionGranted(permissions, category, action) ==
  /\ category \in DOMAIN permissions
  /\ action \in DOMAIN permissions[category]
  /\ permissions[category][action]

\* the requirePermission(category, action) middleware, on req.user
requirePermission(role, permissions, category, action) ==
  role = "storage-admin" \/ permissionGranted(permissions, category, action)

\* User.hasPermission(category, action)
hasPermission(userType, permissions, category, action) ==
  IF userType = "storage-admin" THEN category # "clientOperations"
  ELSE permissionGranted(permissions, category, action)

\* the guards that are asked for: a permission of the map, one of the client
\* operations, and one of a category the map does not hold
GuardInputs ==
  {<<"administration", "manageUsers">>, <<"clientOperations", "manageUsers">>,
   <<"systemAccess", "apiAccess">>}

\* the principals that authenticateToken attaches in this state
Principals ==
  {authenticateToken(users, companies, now, tok).user
     : tok \in {x \in Presentable : authenticateToken(users, companies, now, x).ok}}

\* C32: requirePermission(category, action) decides exactly as hasPermission
\* does on the same role and permission map: a storage-admin passes every
\* category except clientOperations, any other role passes iff
\* permissions[category][action] is true.
C32_GuardAgreesWithHasPermission ==
  \A p \in Principals, g \in GuardInputs :
    requirePermission(p.role, PermissionMap(p), g[1], g[2])
      <=> hasPermission(p.role, PermissionMap(p), g[1], g[2])

\* ---------------------------------------------------- login frame property
LockoutFields == {"failedLoginAttempts", "accountLockedUntil"}

InFlight(op) == {p \in Procs : inflight[p].busy /\ inflight[p].op = op}

\* a refresh that is past its read has passed the membership check and holds
\* the pair it will return
InFlightRefreshHoldsPair ==
  \A p \in InFlight("refreshToken") :
    /\ inflight[p].r.resp.status = 200
    /\ inflight[p].r.resp.tokens # NoTokens

\* the save of a refresh writes the list the handler built from what it read,
\* over whatever has been stored since, and its pair is returned
RefreshSaveOverwrites ==
  \A p \in InFlight("refreshToken") :
    ~inflight'[p].busy =>
      /\ users'[inflight[p].r.uid].refreshTokens = inflight[p].r.doc.refreshTokens
      /\ TokensOf(inflight[p].r.resp) \subseteq issued'

InFlightSecondStepHoldsPair ==
  \A p \in InFlight("complete2FALogin") :
    /\ inflight[p].r.resp.status = 200
    /\ inflight[p].r.resp.tokens # NoTokens

\* the save of a second step writes the backup codes and the sessions the
\* handler built from what it read, and its pair is returned
SecondStepSaveOverwrites ==
  \A p \in InFlight("complete2FALogin") :
    ~inflight'[p].busy =>
      /\ "twoFactorAuth" \in inflight[p].r.mod
      /\ users'[inflight[p].r.uid].twoFactorAuth = inflight[p].r.doc.twoFactorAuth
      /\ users'[inflight[p].r.uid].refreshTokens = inflight[p].r.doc.refreshTokens
      /\ TokensOf(inflight[p].r.resp) \subseteq issued'

LoginSaveOverwrites ==
  \A p \in InFlight("login") :
    ~inflight'[p].busy =>
      LET r == inflight[p].r
      IN /\ "failedLoginAttempts" \in r.mod
         /\ users'[r.uid].failedLoginAttempts = r.doc.failedLoginAttempts
         /\ "accountLockedUntil" \in r.mod
              => users'[r.uid].accountLockedUntil = r.doc.accountLockedUntil

\* a login that is past its read holds what it computed from that read: zero
\* and no lock after a correct password, a counter under the threshold and no
\* word on the lock after a wrong one, a lock from the threshold on
InFlightLoginCounts ==
  \A p \in InFlight("login") :
    LET r == inflight[p].r
    IN IF r.resp.status = 200
       THEN /\ r.doc.failedLoginAttempts = 0
            /\ "accountLockedUntil" \in r.mod
            /\ r.doc.accountLockedUntil = NoDate
       ELSE IF r.doc.failedLoginAttempts >= LockThreshold
       THEN /\ "accountLockedUntil" \in r.mod
            /\ r.doc.accountLockedUntil = now + LockSeconds
       ELSE /\ r.doc.failedLoginAttempts >= 1
            /\ "accountLockedUntil" \notin r.mod

\* C36: failed-attempt counting is last-write-wins: with the logins of a user
\* interleaved between their read and their save, a save writes the counter
\* and the lock computed from the read, so wrong passwords go uncounted, five
\* or more of them can complete without a lock, and a successful login can
\* overwrite a lock that a failed one has just set.
C36_FailedAttemptsLastWriteWins ==
  [](InFlightLoginCounts) /\ [][LoginSaveOverwrites]_vars

\* no login of the account has succeeded, four wrong passwords are counted,
\* and one more wrong password is about to save the count of four again
C36_Witness ==
  \E p \in InFlight("login") :
    LET r == inflight[p].r
    IN /\ r.resp.status = 401
       /\ r.resp.msg = "Invalid email or password"
       /\ r.doc.failedLoginAttempts = LockThreshold - 1
       /\ users[r.uid].failedLoginAttempts = LockThreshold - 1
       /\ users[r.uid].accountLockedUntil = NoDate
       /\ users[r.uid].lastLoginAt = NoDate

\* the account has just been locked, and a login with the correct password
\* that read it before is about to save over the lock
LockOverwriteRace ==
  \E p \in InFlight("login") :
    LET r == inflight[p].r
    IN /\ r.resp.status = 200
       /\ isLocked(users[r.uid], now)
       /\ users[r.uid].failedLoginAttempts >= LockThreshold

\* --------------------------------------------------- refresh token identity
\* C37: every refresh token issued to a user differs from every refresh token
\* issued to that user before, one issued in the same clock second included;
\* the refresh token that a refresh returns differs from the one presented.
C37_RefreshTokensAreFresh ==
  /\ \A i \in LoginInputs :
       LET r == login(users, companies, now, nextId, i[1], i[2])
       IN r.resp.tokens # NoTokens => r.resp.tokens.refreshToken \notin issued
  /\ \A tok \in Presentable :
       LET r == refreshToken(users, now, nextId, tok)
       IN r.resp.status = 200
            => /\ r.resp.tokens.refreshToken # tok
               /\ r.resp.tokens.refreshToken \notin issued

\* ------------------------------------------------------ account creation
\* a bcrypt hash is a string: what bcrypt.hash returns is what a later
\* bcrypt.hash takes as its plaintext when it is handed a hash
hashString(hash) == "$2a$12$" \o hash.bcrypt

\* an _id that no document of the collection has: no query finds it
NoDocument ==
  [UserDoc(NoUser, "storage-employee", NoRef, FALSE, FALSE, 0, 0)
     EXCEPT !.password = bcryptHash(NoRef), !.storageCompanyId = NoRef]

\* new User({...}).save(): the defaults of the schema, and the pre-save hook
\* that hashes the password path it finds modified
newUser(email, password, userType, storageCompanyId, clientBusinessId, isActive, isEmailVerified) ==
  [UserDoc(email, userType, clientBusinessId, isActive, FALSE, 0, 0)
     EXCEPT !.password = bcryptHash(password),
            !.storageCompanyId = storageCompanyId,
            !.isEmailVerified = isEmailVerified]

\* a creation route's result: the response, the document inserted under uid,
\* and the companies as the route leaves them
Created(resp, uid, doc, cos) ==
  [resp |-> resp, uid |-> uid, doc |-> doc, mod |-> DOMAIN doc, cos |-> cos]
NotCreated(resp, cos) ==
  [resp |-> resp, uid |-> NoUser, doc |-> NoDoc, mod |-> {}, cos |-> cos]

\* User.findOne({ email })
existingUser(db, email) == \E u \in UserIds : db[u].email = email

\* registerCompany: the company, pending, and its administrator, inactive; the
\* administrator's password is hashed by the controller and handed to new User
registerCompany(db, cos, companyId, adminEmail, adminPassword) ==
  IF adminEmail = NoUser
  THEN NotCreated(Resp(400, "Missing required fields"), cos)
  ELSE IF Len(adminPassword) < 8
  THEN NotCreated(Resp(400, "Admin password must be at least 8 characters long"), cos)
  ELSE IF companyId \in DOMAIN cos
  THEN NotCreated(Resp(409, "Company with this name or email already exists"), cos)
  ELSE IF existingUser(db, adminEmail)
  THEN NotCreated(Resp(409, "User with this email already exists"), cos)
  ELSE LET hashedPassword == bcryptHash(adminPassword)
       IN Created(Resp(201, "Company registration initiated"),
                  adminEmail,
                  newUser(adminEmail, hashString(hashedPassword), "storage-admin",
                          companyId, NoRef, FALSE, FALSE),
                  [id \in DOMAIN cos \cup {companyId} |->
                     IF id = companyId
                     THEN [registrationStatus |-> "pending", isActive |-> FALSE,
                           setupStep |-> 1]
                     ELSE cos[id]])

\* verifyEmail: the company is verified and User.updateOne activates its
\* administrator
verifyEmail(db, cos, companyId) ==
  IF companyId \notin DOMAIN cos \/ cos[companyId].registrationStatus # "pending"
  THEN NotCreated(Resp(400, "Invalid or expired verification token"), cos)
  ELSE LET verified == [cos EXCEPT ![companyId].registrationStatus = "email-verified"]
           Admin(u) == db[u].storageCompanyId = companyId
                         /\ db[u].userType = "storage-admin"
       IN IF \E u \in UserIds : Admin(u)
          THEN LET uid == CHOOSE u \in UserIds : Admin(u)
               IN [resp |-> Resp(200, "Email verified successfully"), uid |-> uid,
                   doc |-> [db[uid] EXCEPT !.isActive = TRUE], mod |-> {"isActive"},
                   cos |-> verified]
          ELSE NotCreated(Resp(200, "Email verified successfully"), verified)

\* completeSetup: the setup step moves up, and from step 4 on the company is
\* set up and active
completeSetup(cos, companyId, step) ==
  IF companyId \notin DOMAIN cos
  THEN NotCreated(Resp(404, "Company not found"), cos)
  ELSE IF cos[companyId].registrationStatus \notin {"email-verified", "setup-completed"}
  THEN NotCreated(Resp(400, "Email must be verified before completing setup"), cos)
  ELSE LET company == cos[companyId]
           setupStep == IF company.setupStep > step THEN company.setupStep ELSE step
       IN NotCreated(Resp(200, "Setup step completed successfully"),
                     [cos EXCEPT ![companyId] =
                        IF setupStep >= 4
                        THEN [registrationStatus |-> "setup-completed",
                              isActive |-> TRUE, setupStep |-> setupStep]
                        ELSE [company EXCEPT !.setupStep = setupStep]])

\* POST /api/users: the password of the body goes to new User as it is
createUser(db, cos, principal, email, password, userType, storageCompanyId, clientBusinessId) ==
  IF email = NoUser
  THEN NotCreated(Resp(400, "Email, password, first name, last name, and user type are required"), cos)
  ELSE IF userType # "guardian-admin" /\ storageCompanyId = NoRef
  THEN NotCreated(Resp(400, "Storage company is required for this user type"), cos)
  ELSE IF Len(password) < 8
  THEN NotCreated(Resp(400, "Password must be at least 8 characters long"), cos)
  ELSE IF userType \notin UserTypes \cup {"guardian-admin"}
  THEN NotCreated(Resp(400, "Invalid user type"), cos)
  ELSE IF principal.role # "guardian-admin" /\ userType = "guardian-admin"
  THEN NotCreated(Resp(403, "Only GUARDIAN admins can create GUARDIAN admin users"), cos)
  ELSE IF /\ principal.role = "storage-admin"
          /\ storageCompanyId # principal.storageCompanyId.id
  THEN NotCreated(Resp(403, "Can only create users within your storage company"), cos)
  ELSE IF existingUser(db, email)
  THEN NotCreated(Resp(400, "User with this email already exists in this storage company"), cos)
  ELSE IF storageCompanyId # NoRef /\ storageCompanyId \notin DOMAIN cos
  THEN NotCreated(Resp(400, "Storage company not found"), cos)
  ELSE IF userType \in ClientUserTypes /\ clientBusinessId = NoRef
  THEN NotCreated(Resp(400, "Client business ID is required for client users"), cos)
  ELSE LET doc == newUser(email, password, userType, storageCompanyId,
                          clientBusinessId, TRUE, TRUE)
       IN IF userType \notin UserTypes \/ storageCompanyId = NoRef \/ ~saveValidates(doc)
          THEN NotCreated(Resp(500, "Failed to create user"), cos)
          ELSE Created(Resp(201, "User created successfully"), email, doc, cos)

\* login's password check: bcrypt.compare(password, userWithPassword.password)
isPasswordValid(db, uid, password) == bcryptCompare(password, db[uid].password)

CreateRun(op, r) == [op |-> op, r |-> r]

CreateUserRun(tok, email, password, userType, storageCompanyId, clientBusinessId) ==
  LET a == authenticateToken(users, companies, now, tok)
  IN CreateRun("createUser",
               IF a.ok
               THEN createUser(users, companies, a.user, email, password, userType,
                               storageCompanyId, clientBusinessId)
               ELSE NotCreated(a.resp, companies))

\* the company that registers itself
RegisteringId == OtherCompanyId
CreatedTypes == {"storage-manager", "client-user", "guardian-admin"}

\* the route writes what it created or changed
CreateFinish(x) ==
  /\ x.r.mod # {} \/ x.r.cos # companies
  /\ users' = save(users, x.r)
  /\ companies' = x.r.cos
  /\ last' = [NoCall EXCEPT !.op = x.op, !.resp = x.r.resp,
                            !.userId = x.r.uid]
  /\ UNCHANGED <<now, ticks, nextId, issued, inflight>>

RegisterCompany ==
  \E x \in {CreateRun("registerCompany",
                      registerCompany(users, companies, RegisteringId, e, pw))
              : e \in Emails, pw \in NewPasswords} :
    CreateFinish(x)
VerifyEmail ==
  \E x \in {CreateRun("verifyEmail", verifyEmail(users, companies, RegisteringId))} :
    CreateFinish(x)
CompleteSetup ==
  \E x \in {CreateRun("completeSetup", completeSetup(companies, RegisteringId, step))
              : step \in {2, 4}} :
    CreateFinish(x)
CreateUser ==
  \E x \in {CreateUserRun(tok, e, pw, ty, CompanyId, cb)
              : tok \in Presentable, e \in Emails, pw \in NewPasswords,
                ty \in CreatedTypes, cb \in {NoRef, ClientBusinessId}} :
    CreateFinish(x)
\* the accounts log in, the created one too, with one of the passwords
CreatedLogin ==
  \E x \in {LoginRun(e, pw) : e \in UserIds, pw \in Passwords} : Effective(x)

\* u1 administers company c1; no other account and no other company exists
InitCreate ==
  /\ users = [u \in UserIds |->
                IF u = "u1" THEN UserDoc(u, "storage-admin", NoRef, TRUE, FALSE, 0, 1)
                ELSE NoDocument]
  /\ companies = [id \in {CompanyId} |-> [registrationStatus |-> "active", isActive |-> TRUE]]
  /\ now = StartTime
  /\ ticks = 0
  /\ nextId = 2 * SeedSessions + 3
  /\ issued = SeedIssued(users)
  /\ inflight = [p \in Procs |-> Idle]
  /\ last = NoCall
NextCreate ==
  \/ RegisterCompany
  \/ VerifyEmail
  \/ CompleteSetup
  \/ CreateUser
  \/ CreatedLogin
SpecCreate == InitCreate /\ [][NextCreate]_vars

\* C38: on every creation path the stored password is one hash of the
\* plaintext supplied: for the administrator that registerCompany creates and
\* for the user that POST /api/users creates, the password check of login
\* succeeds with exactly the password given at creation.
C38_CreatedPasswordRoundTrip ==
  /\ \A e \in Emails, pw \in NewPasswords :
       LET r == registerCompany(users, companies, RegisteringId, e, pw)
           after == save(users, r)
       IN r.resp.status = 201
            => /\ after[r.uid].password = bcryptHash(pw)
               /\ \A p \in Passwords : isPasswordValid(after, r.uid, p) <=> p = pw
  /\ \A tok \in Presentable, e \in Emails, pw \in NewPasswords, ty \in CreatedTypes,
        cb \in {NoRef, ClientBusinessId} :
       LET r == CreateUserRun(tok, e, pw, ty, CompanyId, cb).r
           after == save(users, r)
       IN r.resp.status = 201
            => /\ after[r.uid].password = bcryptHash(pw)
               /\ \A p \in Passwords : isPasswordValid(after, r.uid, p) <=> p = pw

\* the account that POST /api/users creates checks its password against one
\* hash of the plaintext
CreateUserRoundTrip ==
  \A tok \in Presentable, e \in Emails, pw \in NewPasswords, ty \in CreatedTypes,
     cb \in {NoRef, ClientBusinessId} :
    LET r == CreateUserRun(tok, e, pw, ty, CompanyId, cb).r
        after == save(users, r)
    IN r.resp.status = 201
         => /\ after[r.uid].password = bcryptHash(pw)
            /\ \A p \in Passwords : isPasswordValid(after, r.uid, p) <=> p = pw

\* the registered administrator is active, its company is set up and active,
\* and login turns every password down
RegisteredAdminLockedOut ==
  /\ last.op = "login"
  /\ last.resp.status = 401
  /\ users["u2"].storageCompanyId = RegisteringId
  /\ users["u2"].isActive
  /\ isActiveOf(companies[RegisteringId])
  /\ \A p \in Passwords : ~isPasswordValid(users, "u2", p)

\* ------------------------------------------------------ two-factor setup
\* what a setup request does to the store: it leaves enabled as it is, and
\* when it is accepted the secret is the new one, the backup codes are those of
\* before and no login of the user asks for a second factor; while the second
\* factor is enabled the request is rejected and writes nothing
SetupKeepsSecondFactorOff ==
  \A tok \in EmployeeTokens, secret \in SetupSecrets :
    LET r == Generate2FASetupRun(tok, secret).r
        after == save(users, r)
    IN /\ \A u \in UserIds :
            after[u].twoFactorAuth.enabled = users[u].twoFactorAuth.enabled
       /\ r.mod # {}
            => /\ r.resp.status = 200
               /\ ~users[r.uid].twoFactorAuth.enabled
               /\ after[r.uid].twoFactorAuth.secret = secret
               /\ after[r.uid].twoFactorAuth.backupCodes
                    = users[r.uid].twoFactorAuth.backupCodes
               /\ \A pw \in Passwords :
                    ~login(after, companies, now, nextId, r.uid, pw).resp.requiresTwoFactor
       /\ (tok.userId \in UserIds /\ users[tok.userId].twoFactorAuth.enabled)
            => /\ r.mod = {}
               /\ r.resp.status # 200
               /\ after = users

\* the second factor of a user goes from off to on in a successful
\* verifyAndEnable2FA and in no other step; a setup step leaves it as it is
EnabledOnlyByVerification ==
  \A u \in UserIds :
    /\ (~users[u].twoFactorAuth.enabled /\ users'[u].twoFactorAuth.enabled)
         => last'.op = "verifyAndEnable2FA" /\ last'.resp.status = 200
    /\ last'.op = "generate2FASetup"
         => users'[u].twoFactorAuth.enabled = users[u].twoFactorAuth.enabled

SetupRejectedWhileEnabled ==
  \E tok \in EmployeeTokens, secret \in SetupSecrets :
    /\ users[Employee].twoFactorAuth.enabled
    /\ Generate2FASetupRun(tok, secret).r.resp.status = 400
    /\ users[Employee].twoFactorAuth.secret \in SetupSecrets

====
